---------------------------- MODULE Spec2Model ----------------------------
(***************************************************************************)
(* A model of src/ex8/dot_product_openCL.cpp: the three-pass exclusive     *)
(* scan (scan_kernel_1/2/3, exclusive_scan), the assembly of the 2D        *)
(* Poisson matrix in CSR form (count_nnz, exclusive_scan, solve_system,    *)
(* assembleA) and the control loop of conjugate_gradient.                  *)
(*                                                                         *)
(* Numbers.  "double" values are integers here: every value the kernels    *)
(* hold is a sum of a few small integers, which a double represents        *)
(* exactly.  "unsigned int" loop bounds are 32 bits wide and are kept as   *)
(* two 16-bit halves <<hi, lo>>, so that the wrap of (N - 1) for N = 0 and *)
(* of work_per_thread * blockDim.x * (blockIdx.x + 1) is the code's.        *)
(***************************************************************************)
EXTENDS Integers, Sequences, FiniteSets, TLC

VARIABLES
  \* ---- exclusive_scan: one invocation
  X,            \* device input, index -> value (the indices the scan may read)
  scanN,        \* the argument N of exclusive_scan
  build,        \* the machine the code is built for, one of Builds
  elemType,     \* the element type of the scan kernels in use: "int", "double"
  gdim,         \* num_blocks
  bdim,         \* threads_per_block
  Y,            \* device output: index -> value, defined on the written indices
  carries,      \* device carries: block -> value, defined on the written blocks
  readsX,       \* the indices of X read so far
  spc,          \* "idle", "k1", "k2", "k3", "done", "hung", "inclusive"
  \* ---- main / solve_system: assembly of the Poisson matrix
  n,            \* grid size; the matrix has n * n rows
  cuda_nnz,     \* row -> count (count_nnz's output), defined on written rows
  garbage,      \* what a read beyond an allocation, or of a clobbered cell, returns
  adjacent,     \* what lies behind the device allocations: "padding" or "object"
  row_offsets,  \* cuda_row_offsets as main sees it after exclusive_scan
  nnz_total,    \* solve_system's nnz_total
  col_indices,  \* cuda_csr_colindices: position -> column
  values,       \* cuda_csr_values: position -> value
  emitted,      \* row -> the entries <<position, column, value>> in write order
  apc,          \* "idle", "count", "scan", "scanning", "solve", "fill", "done"
  \* ---- conjugate_gradient: control state
  iters,        \* int iters
  cgpc,         \* position in conjugate_gradient
  exitBy,       \* "none", "tolerance", "cap"
  report,       \* "none", "converged", "not_converged"
  \* ---- conjugate_gradient: the host, the default stream and the device
  pending,      \* the default stream: operations issued and not yet started
  running,      \* the operations the device is executing
  cuda_scalar,  \* the partial sums added to *cuda_scalar since it was zeroed
  residual_norm_squared,     \* host double
  initial_residual_squared,  \* host double
  alpha,        \* host double
  beta,         \* host double
  writtenBufs,  \* the buffers written since the entry to conjugate_gradient
  lastKernel,   \* the kernel the device completed last
  reductions,   \* the number of cuda_dot_product launches so far
  tolTests,     \* the number of tolerance tests so far
  \* ---- cuda_dot_product: one launch
  dotN,         \* the argument N
  dotX,         \* x: index -> value
  dotY,         \* y: index -> value
  dotG,         \* gridDim.x
  dotB,         \* blockDim.x
  result,       \* *result
  addedBlocks,  \* the blocks whose thread 0 has done its atomicAdd
  dotpc,        \* <<block, thread>> -> the index of its next statement
  shared_mem,   \* block -> (slot -> value), defined on the stored slots
  dotArrived,   \* block -> the threads waiting at __syncthreads()
  dotReads,     \* block -> <<thread, slot>>: loads since the last barrier
  dotWrites,    \* block -> <<thread, slot>>: stores since the last barrier
  \* ---- cuda_csr_matvec_product: one launch
  mvN,             \* the argument N
  csr_rowoffsets,  \* row -> first position, N + 1 elements
  csr_colindices,  \* position -> column
  csr_values,      \* position -> value
  mvX,             \* x: index -> value
  mvY,             \* y: index -> value, defined on the stored indices
  mvStores,        \* index -> the number of stores to y[index] so far
  mvG,             \* gridDim.x
  mvB,             \* blockDim.x
  mvDone,          \* the blocks that have run
  \* ---- inclusive_scan
  z_in,         \* the returned host array: index -> value
  z_exLoads,    \* the indices of z_ex that inclusive_scan has loaded
  xLoads,       \* the indices of x that inclusive_scan has loaded
  \* ---- scan_kernel_1, scan_kernel_2, cuda_dot_product: the threads of one block
  blkKernel,    \* the kernel the block runs
  blkG,         \* gridDim.x
  blkIdx,       \* blockIdx.x
  blkB,         \* blockDim.x
  blkN,         \* the argument N
  tprog,        \* thread -> the statements it runs, its for loop unrolled
  tguard,       \* thread -> the iterations of its for loop in which i < N
  tpc,          \* thread -> the index of its next statement
  arrived,      \* the threads waiting at __syncthreads()
  yStored,      \* <<thread, iteration>> of the stores Y[i] = ... done
  carryStored,  \* carries[blockIdx.x] has been stored
  phaseReads,   \* <<thread, slot>>: shared-memory loads since the last barrier
  phaseWrites   \* <<thread, slot>>: shared-memory stores since the last barrier

scanVars == <<build, elemType, X, scanN, gdim, bdim, Y, carries, readsX, spc>>
asmVars == <<n, cuda_nnz, garbage, adjacent, row_offsets, nnz_total,
             col_indices, values, emitted, apc>>
cgVars == <<iters, cgpc, exitBy, report>>
streamVars == <<pending, running, cuda_scalar, residual_norm_squared,
                initial_residual_squared, alpha, beta, writtenBufs, lastKernel,
                reductions, tolTests>>
dotVars == <<dotN, dotX, dotY, dotG, dotB, result, addedBlocks, dotpc,
             shared_mem, dotArrived, dotReads, dotWrites>>
mvVars == <<mvN, csr_rowoffsets, csr_colindices, csr_values, mvX, mvY,
           mvStores, mvG, mvB, mvDone>>
blkVars == <<blkKernel, blkG, blkIdx, blkB, blkN, tprog, tguard, tpc, arrived,
            yStored, carryStored, phaseReads, phaseWrites>>
incVars == <<z_in, z_exLoads, xLoads>>
extVars == <<streamVars, dotVars, mvVars, incVars, blkVars>>
vars == <<scanVars, asmVars, cgVars, extVars>>

---------------------------------------------------------------------------
(* Bounds of the model *)

\* the longest scan input
MaxN == 3
\* the largest gridDim.x and blockDim.x of the small launch configurations
MaxDim == 3
\* the largest input value
MaxVal == 1
\* the largest grid size n
MaxGrid == 3

(* Program constants *)

\* exclusive_scan: int num_blocks = 256
NumBlocks == 256
\* exclusive_scan: int threads_per_block = 256
ThreadsPerBlock == 256
\* conjugate_gradient: if (iters > 10000)
IterCap == 10000

Values == (0 - 1)..MaxVal
GarbageValues == {0 - 1, 0, 7}
EmptyMap == <<>>

\* f as a table of its values: TLC keeps [x \in S |-> e] unevaluated and would
\* compute e again at every application of f
Table(f) == f @@ EmptyMap

\* num_blocks, threads_per_block: every small pair, and exclusive_scan's own
Configs == ((1..MaxDim) \X (1..MaxDim)) \cup {<<NumBlocks, ThreadsPerBlock>>}

---------------------------------------------------------------------------
(* 32-bit unsigned arithmetic on <<hi, lo>>, hi and lo in 0..65535 *)

Half == 2^16

\* conversion int -> unsigned int (two's complement for a negative value)
U32FromInt(x) ==
  IF x >= 0 THEN <<x \div Half, x % Half>>
  ELSE <<Half - 1 - ((0 - x - 1) \div Half), Half - 1 - ((0 - x - 1) % Half)>>

\* the value of an unsigned int below 2^31
U32ToNat(a) == a[1] * Half + a[2]

U32Less(a, b) == a[1] < b[1] \/ (a[1] = b[1] /\ a[2] < b[2])

\* a + k mod 2^32, 0 <= k < 2^15
U32AddSmall(a, k) ==
  LET s == a[2] + k
  IN  <<(a[1] + s \div Half) % Half, s % Half>>

\* a - b mod 2^32
U32Sub(a, b) ==
  LET lo == a[2] - b[2]
      borrow == IF lo < 0 THEN 1 ELSE 0
  IN  <<(a[1] - b[1] - borrow + Half) % Half, (lo + Half) % Half>>

\* a * m mod 2^32, 0 <= m < 2^15
U32MulSmall(a, m) ==
  LET p == a[2] * m
  IN  <<(a[1] * m + p \div Half) % Half, p % Half>>

\* long division of a by d, 1 <= d <= 2^16, byte by byte: <<quotient, remainder>>
U32DivMod(a, d) ==
  LET b3 == a[1] \div 256
      b2 == a[1] % 256
      b1 == a[2] \div 256
      b0 == a[2] % 256
      t2 == (b3 % d) * 256 + b2
      t1 == (t2 % d) * 256 + b1
      t0 == (t1 % d) * 256 + b0
  IN  << <<((b3 \div d) * 256 + t2 \div d) % Half, (t1 \div d) * 256 + t0 \div d>>,
         t0 % d >>

---------------------------------------------------------------------------
(* The doubles of the scan kernels hold whole numbers far below 2^53, so   *)
(* their sums are exact.  A double is <<q, r>>, its value q * 2^30 + r     *)
(* with 0 <= r < 2^30.                                                     *)

Quarter == 2^30

IntMax == 2147483647
IntMin == 0 - IntMax - 1

DoubleZero == <<0, 0>>

\* conversion int -> double
IntToDouble(x) ==
  IF x >= 0 THEN <<x \div Quarter, x % Quarter>>
  ELSE <<0 - 1 - ((0 - (x + 1)) \div Quarter),
         Quarter - 1 - ((0 - (x + 1)) % Quarter)>>

\* conversion unsigned int -> double
U32ToDouble(a) == <<a[1] \div 2^14, (a[1] % 2^14) * Half + a[2]>>

\* conversion unsigned int -> int (the same 32 bits)
U32ToInt(a) ==
  IF a[1] < 2^15 THEN a[1] * Half + a[2] ELSE (a[1] - Half) * Half + a[2]

\* a + b in double
DoubleAdd(a, b) ==
  LET s == a[2] + b[2]
  IN  <<a[1] + b[1] + s \div Quarter, s % Quarter>>

\* The conversion of a double outside the range of the target type is
\* undefined; what it gives depends on the machine the code is built for.
\* "cuda": the conversion instructions of the device clamp to the nearest end
\* of the range.  "x86_64": double -> unsigned int goes through a 64-bit
\* integer of which the low 32 bits are kept (cvttsd2si).  "x86_64_avx512":
\* double -> unsigned int is one instruction (vcvttsd2usi), which gives
\* 2^32 - 1 outside the range.  On both x86-64 machines double -> int outside
\* the range gives the bit pattern 0x80000000.
Builds == {"cuda", "x86_64", "x86_64_avx512"}

\* conversion double -> unsigned int
DoubleToU32(target, d) ==
  LET bits(q) == <<q * 2^14 + d[2] \div Half, d[2] % Half>>
  IN  IF d[1] >= 0 /\ d[1] <= 3 THEN bits(d[1])
      ELSE IF target = "x86_64" THEN bits(d[1] % 4)
      ELSE IF target = "x86_64_avx512" THEN <<Half - 1, Half - 1>>
      ELSE IF d[1] < 0 THEN <<0, 0>>
      ELSE <<Half - 1, Half - 1>>

\* conversion double -> int
DoubleToInt(target, d) ==
  IF d[1] >= 0 - 2 /\ d[1] <= 1 THEN d[1] * Quarter + d[2]
  ELSE IF target # "cuda" THEN IntMin
  ELSE IF d[1] < 0 THEN IntMin
  ELSE IntMax

\* the element types of the two sets of scan kernels
ElemTypes == {"int", "double"}

\* a set of ints as values of the element type
AsElems(elem, S) == IF elem = "int" THEN S ELSE {IntToDouble(x) : x \in S}

\* the input values of the scan
ElemValues(elem) == AsElems(elem, Values)

\* what a cell that nothing stored to may hold
Garbage(elem) == AsElems(elem, GarbageValues)

\* conversion of an element loaded from X, Y or carries to double
ElemToDouble(elem, x) == IF elem = "int" THEN IntToDouble(x) ELSE x

\* conversion of a double to the element type of Y and carries
DoubleToElem(target, elem, d) ==
  IF elem = "int" THEN DoubleToInt(target, d) ELSE d

\* conversion of block_offset to the element type of carries
U32ToElem(elem, a) == IF elem = "int" THEN U32ToInt(a) ELSE U32ToDouble(a)

---------------------------------------------------------------------------
(* scan_kernel_1, scan_kernel_3: the partition of the index range *)

\* unsigned int work_per_thread = (N - 1) / (gridDim.x * blockDim.x) + 1
WorkPerThread(N, G, B) ==
  U32AddSmall(U32DivMod(U32FromInt(N - 1), G * B)[1], 1)

\* unsigned int block_start = work_per_thread * blockDim.x * blockIdx.x
BlockStart(N, G, B, b) == U32MulSmall(U32MulSmall(WorkPerThread(N, G, B), B), b)

\* unsigned int block_stop = work_per_thread * blockDim.x * (blockIdx.x + 1)
BlockStop(N, G, B, b) == U32MulSmall(U32MulSmall(WorkPerThread(N, G, B), B), b + 1)

\* i in iteration k of thread t: block_start + threadIdx.x, then k times i += blockDim.x
LoopIndex(start, B, t, k) == U32AddSmall(U32AddSmall(start, t), k * B)

\* (i < N) of "my_value = (i < N) ? X[i] : 0": N is converted to unsigned
LoadGuard(i, N) == U32Less(i, U32FromInt(N))

\* a store guard that lets i = N through
StoreGuardOffByOne(i, N) == U32Less(i, U32FromInt(N + 1))

\* (i < N) of "if (i < N) Y[i] = ..."
StoreGuard(i, N) == U32Less(i, U32FromInt(N))

---------------------------------------------------------------------------
(* The stride-doubling scan in shared_buffer.  Every round is: barrier, all *)
(* threads store my_value, barrier, threads >= stride add the value stored  *)
(* stride places below; so a round reads the values of the round before.    *)

RECURSIVE InclusiveRounds(_, _, _)
InclusiveRounds(v, stride, B) ==
  IF stride >= B THEN v
  ELSE InclusiveRounds(
         Table([t \in 0..(B - 1) |-> IF t >= stride
                                 THEN DoubleAdd(v[t], v[t - stride])
                                 ELSE v[t]]),
         stride * 2, B)

\* shared_buffer after the last store of my_value
SharedAfterScan(v, B) == InclusiveRounds(Table(v), 1, B)

\* my_value = (threadIdx.x > 0) ? shared_buffer[threadIdx.x - 1] : 0
ShiftRight(shared, t) == IF t > 0 THEN shared[t - 1] ELSE DoubleZero


---------------------------------------------------------------------------
(* scan_kernel_1, one block.  acc is the block's state between iterations: *)
(* offset (block_offset), out (the Y it stored), reads (the X it loaded),  *)
(* status ("ok", or "diverged" when the threads of the block do not all    *)
(* run the same iterations, so that some skip a barrier others wait at).   *)
(* target is the machine the code is built for, elem the element type of   *)
(* X, Y and carries.                                                       *)

\* every out-of-range iteration adds 1 (a variant of DeadIterations)
DeadIterationsAddOne(target, offset, B) == U32AddSmall(offset, 1)

\* The iterations in which every thread has i >= N: each loads 0, the scan of
\* zeros leaves shared_buffer[blockDim.x - 1] = 0, nothing is stored and
\* block_offset += 0, however many such iterations follow.
DeadIterations(target, offset, B) ==
  LET c == SharedAfterScan([t \in 0..(B - 1) |-> DoubleZero], B)[B - 1]
  IN  DoubleToU32(target, DoubleAdd(U32ToDouble(offset), c))

RECURSIVE Scan1Loop(_, _, _, _, _, _, _, _, _)
Scan1Loop(target, elem, Xin, N, B, start, stop, k, acc) ==
  LET T == 0..(B - 1)
      i == Table([t \in T |-> LoopIndex(start, B, t, k)])
      runs == {t \in T : U32Less(i[t], stop)}
      live == {t \in runs : LoadGuard(i[t], N)}
      stores == {t \in runs : StoreGuard(i[t], N)}
  IN  IF runs = {} THEN acc
      ELSE IF runs # T THEN [acc EXCEPT !.status = "diverged"]
      ELSE IF live = {} /\ stores = {}
      THEN \* the rest of the loop: its last iteration must be a full one too
           IF U32DivMod(U32Sub(stop, i[0]), B)[2] # 0
           THEN [acc EXCEPT !.status = "diverged"]
           ELSE [acc EXCEPT !.offset = DeadIterations(target, acc.offset, B)]
      ELSE
        LET pos(t) == U32ToNat(i[t])
            my_value == [t \in T |-> IF t \in live
                                     THEN ElemToDouble(elem, Xin[pos(t)])
                                     ELSE DoubleZero]
            shared_buffer == SharedAfterScan(my_value, B)
            block_offset == U32ToDouble(acc.offset)
            written == {pos(t) : t \in stores}
            \* the thread t with i[t] = j: i[t] = i[0] + t mod 2^32
            thread(j) == U32ToNat(U32Sub(U32FromInt(j), i[0]))
        IN  Scan1Loop(target, elem, Xin, N, B, start, stop, k + 1,
              [offset |-> DoubleToU32(target,
                            DoubleAdd(block_offset, shared_buffer[B - 1])),
               out    |-> Table([j \in DOMAIN acc.out \cup written |->
                             IF j \in written
                             THEN DoubleToElem(target, elem,
                                    DoubleAdd(block_offset,
                                              ShiftRight(shared_buffer, thread(j))))
                             ELSE acc.out[j]]),
               reads  |-> acc.reads \cup {pos(t) : t \in live},
               status |-> acc.status])

Scan1Block(target, elem, Xin, N, G, B, b) ==
  Scan1Loop(target, elem, Xin, N, B, BlockStart(N, G, B, b),
            BlockStop(N, G, B, b), 0,
            [offset |-> <<0, 0>>, out |-> EmptyMap, reads |-> {}, status |-> "ok"])

\* scan_kernel_1<<<G, B>>>(X, Y, N, carries): the blocks store disjoint parts
\* of Y, and thread 0 of each block stores carries[blockIdx.x] = block_offset
\* (offsets: the block_offset of each block, for a diverged block the one
\* before the iteration in which its threads diverge)
Scan1Kernel(target, elem, Xin, N, G, B) ==
  LET r == Table([b \in 0..(G - 1) |-> Scan1Block(target, elem, Xin, N, G, B, b)])
      dom == UNION {DOMAIN r[b].out : b \in 0..(G - 1)}
      owner(i) == CHOOSE b \in 0..(G - 1) : i \in DOMAIN r[b].out
  IN  [out      |-> Table([i \in dom |-> r[owner(i)].out[i]]),
       carries  |-> Table([b \in 0..(G - 1) |-> U32ToElem(elem, r[b].offset)]),
       offsets  |-> Table([b \in 0..(G - 1) |-> r[b].offset]),
       reads    |-> UNION {r[b].reads : b \in 0..(G - 1)},
       diverged |-> {b \in 0..(G - 1) : r[b].status = "diverged"}]

\* scan_kernel_2<<<1, G>>>(carries): thread t loads carries[t], the same
\* stride-doubling scan, carries[t] = (t > 0) ? shared_buffer[t - 1] : 0
Scan2Kernel(target, elem, car, G) ==
  LET shared_buffer ==
        SharedAfterScan([t \in 0..(G - 1) |-> ElemToDouble(elem, car[t])], G)
  IN  Table([t \in 0..(G - 1) |->
               DoubleToElem(target, elem, ShiftRight(shared_buffer, t))])

\* the indices i < N that block b of scan_kernel_3 visits: i runs from
\* block_start + threadIdx.x in steps of blockDim.x while i < block_stop
Scan3Visits(N, G, B, b) ==
  {i \in 0..(N - 1) : /\ ~U32Less(U32FromInt(i), BlockStart(N, G, B, b))
                      /\ U32Less(U32FromInt(i), BlockStop(N, G, B, b))
                      /\ StoreGuard(U32FromInt(i), N)}

\* the cells scan_kernel_3 visits that pass 1 has not stored to
Scan3Unwritten(Yin, N, G, B) ==
  UNION {Scan3Visits(N, G, B, b) : b \in 0..(G - 1)} \ DOMAIN Yin

\* scan_kernel_3<<<G, B>>>(Y, N, carries): shared_offset = carries[blockIdx.x];
\* Y[i] += shared_offset, on the content the cell has: what pass 1 stored, or
\* for a cell pass 1 did not store to, the content the buffer had, before[i]
Scan3Kernel(target, elem, Yin, N, G, B, car, before) ==
  LET block(i) == CHOOSE b \in 0..(G - 1) : i \in Scan3Visits(N, G, B, b)
      visited == UNION {Scan3Visits(N, G, B, b) : b \in 0..(G - 1)}
  IN  Table([i \in DOMAIN Yin \cup visited |->
         IF i \in visited
         THEN DoubleToElem(target, elem,
                DoubleAdd(ElemToDouble(elem, IF i \in DOMAIN Yin THEN Yin[i]
                                                                ELSE before[i]),
                          ElemToDouble(elem, car[block(i)])))
         ELSE Yin[i]])

\* exclusive_scan(input, output, N) from launch to return, when no block
\* diverges: pass 1 then stores every cell that pass 3 visits
ExclusiveScanOut(target, elem, Xin, N, G, B) ==
  LET k1 == Scan1Kernel(target, elem, Xin, N, G, B)
  IN  Scan3Kernel(target, elem, k1.out, N, G, B,
                  Scan2Kernel(target, elem, k1.carries, G), EmptyMap)

---------------------------------------------------------------------------
(* exclusive_scan as a state machine: one action per kernel launch *)

\* scan_kernel_1<<<num_blocks, threads_per_block>>>(input, output, N, carries).
\* A block whose threads diverge at a barrier is undefined: the kernel may
\* hang, or the waiting threads go on and the iteration ends with
\* block_offset += shared_buffer[blockDim.x - 1] on a slot nothing stored to
\* in this iteration, whose content is slot.
LaunchScan1 ==
  /\ spc = "k1"
  /\ \E k1 \in {Scan1Kernel(build, elemType, X, scanN, gdim, bdim)} :
         \/ /\ k1.diverged = {}
            /\ Y' = k1.out
            /\ carries' = k1.carries
            /\ readsX' = k1.reads
            /\ spc' = "k2"
         \/ /\ k1.diverged # {}
            /\ spc' = "hung"
            /\ UNCHANGED <<Y, carries, readsX>>
         \/ /\ k1.diverged # {}
            /\ \E slot \in Garbage("double") :
                 carries' = [b \in 0..(gdim - 1) |->
                               IF b \in k1.diverged
                               THEN U32ToElem(elemType,
                                      DoubleToU32(build,
                                        DoubleAdd(U32ToDouble(k1.offsets[b]), slot)))
                               ELSE k1.carries[b]]
            /\ Y' = k1.out
            /\ readsX' = k1.reads
            /\ spc' = "k2"
  /\ UNCHANGED <<build, elemType, X, scanN, gdim, bdim>>

\* scan_kernel_2<<<1, num_blocks>>>(carries)
LaunchScan2 ==
  /\ spc = "k2"
  /\ carries' = Scan2Kernel(build, elemType, carries, gdim)
  /\ spc' = "k3"
  /\ UNCHANGED <<build, elemType, X, scanN, gdim, bdim, Y, readsX>>

\* scan_kernel_3<<<num_blocks, threads_per_block>>>(output, N, carries)
LaunchScan3 ==
  /\ spc = "k3"
  /\ \E before \in [Scan3Unwritten(Y, scanN, gdim, bdim) -> Garbage(elemType)] :
       Y' = Scan3Kernel(build, elemType, Y, scanN, gdim, bdim, carries, before)
  /\ spc' = "done"
  /\ UNCHANGED <<build, elemType, X, scanN, gdim, bdim, carries, readsX>>

\* inclusive_scan after the exclusive_scan for double has returned: z_ex is a
\* copy of the N elements of the output; z_in[i] = z_ex[i + 1] for every
\* i < N, which for i = N - 1 loads the element behind z_ex; then
\* z_in[N - 1] = z_ex[N - 1] + x[N - 1].  For N = 0 the loop does not run and
\* the last statement loads z_ex[-1] and x[-1], cells before the two buffers,
\* and stores their sum at z_in[-1].
InclusiveShift ==
  /\ spc = "done" /\ elemType = "double"
  /\ IF scanN >= 1
     THEN \E behind \in Garbage(elemType) :
            LET z_ex == [i \in 0..scanN |-> IF i < scanN THEN Y[i] ELSE behind]
                shifted == [i \in 0..(scanN - 1) |-> z_ex[i + 1]]
            IN  z_in' = [shifted EXCEPT ![scanN - 1] =
                           DoubleAdd(z_ex[scanN - 1], X[scanN - 1])]
     ELSE \E before_z_ex \in Garbage(elemType), before_x \in Garbage(elemType) :
            z_in' = ((0 - 1) :> DoubleAdd(before_z_ex, before_x))
  /\ z_exLoads' = {i + 1 : i \in 0..(scanN - 1)} \cup {scanN - 1}
  /\ xLoads' = {scanN - 1}
  /\ spc' = "inclusive"
  /\ UNCHANGED <<build, elemType, X, scanN, gdim, bdim, Y, carries, readsX>>

AsmIdle ==
  /\ n = 0 /\ cuda_nnz = EmptyMap /\ garbage = 0 /\ adjacent = "padding"
  /\ row_offsets = EmptyMap /\ nnz_total = 0 /\ col_indices = EmptyMap
  /\ values = EmptyMap /\ emitted = EmptyMap /\ apc = "idle"

CgIdle == iters = 0 /\ cgpc = "idle" /\ exitBy = "none" /\ report = "none"

\* a host double that has not been assigned
Unset == <<"unset">>

NoKernel == [site |-> "none", pass |-> 0]

StreamIdle ==
  /\ pending = << >> /\ running = {} /\ cuda_scalar = {}
  /\ residual_norm_squared = Unset /\ initial_residual_squared = Unset
  /\ alpha = Unset /\ beta = Unset
  /\ writtenBufs = {} /\ lastKernel = NoKernel /\ reductions = 0 /\ tolTests = 0

DotIdle ==
  /\ dotN = 0 /\ dotX = EmptyMap /\ dotY = EmptyMap /\ dotG = 1 /\ dotB = 1
  /\ result = 0 /\ addedBlocks = {}
  /\ dotpc = EmptyMap /\ shared_mem = EmptyMap /\ dotArrived = EmptyMap
  /\ dotReads = EmptyMap /\ dotWrites = EmptyMap

MatvecIdle ==
  /\ mvN = 0 /\ csr_rowoffsets = EmptyMap /\ csr_colindices = EmptyMap
  /\ csr_values = EmptyMap /\ mvX = EmptyMap /\ mvY = EmptyMap
  /\ mvStores = EmptyMap /\ mvG = 1 /\ mvB = 1 /\ mvDone = {}

BlockIdle ==
  /\ blkKernel = "none" /\ blkG = 1 /\ blkIdx = 0
  /\ blkB = 1 /\ blkN = 0 /\ tprog = EmptyMap /\ tguard = EmptyMap
  /\ tpc = EmptyMap /\ arrived = {} /\ yStored = {}
  /\ carryStored = FALSE /\ phaseReads = {} /\ phaseWrites = {}

IncIdle == z_in = EmptyMap /\ z_exLoads = {} /\ xLoads = {}

ExtIdle == StreamIdle /\ DotIdle /\ MatvecIdle /\ IncIdle /\ BlockIdle

\* exclusive_scan's own launch configuration is explored for N <= 1, the
\* small configurations for every N up to MaxN
InitScan ==
  /\ scanN \in 0..MaxN
  /\ build \in Builds
  /\ elemType \in ElemTypes
  /\ X \in [0..(scanN - 1) -> ElemValues(elemType)]
  /\ \E c \in Configs :
       /\ gdim = c[1] /\ bdim = c[2]
       /\ (c[1] > MaxDim \/ c[2] > MaxDim) => scanN <= 1
  /\ Y = EmptyMap /\ carries = EmptyMap /\ readsX = {} /\ spc = "k1"
  /\ AsmIdle /\ CgIdle /\ ExtIdle

NextScan ==
  \/ LaunchScan1 /\ UNCHANGED <<asmVars, cgVars, extVars>>
  \/ LaunchScan2 /\ UNCHANGED <<asmVars, cgVars, extVars>>
  \/ LaunchScan3 /\ UNCHANGED <<asmVars, cgVars, extVars>>
  \/ InclusiveShift
       /\ UNCHANGED <<asmVars, cgVars, streamVars, dotVars, mvVars, blkVars>>

SpecScan == InitScan /\ [][NextScan]_vars

---------------------------------------------------------------------------
(* count_nnz and assembleA: one thread per row of the n x n grid *)

\* for (row = blockDim.x * blockIdx.x + threadIdx.x; row < N * N;
\*      row += gridDim.x * blockDim.x): the rows that thread tid visits
GridStrideRows(tid, nthreads, limit) ==
  {row \in 0..(limit - 1) : row % nthreads = tid}

\* the rows some thread of the grid visits
KernelRows(nthreads, limit) ==
  UNION {GridStrideRows(row % nthreads, nthreads, limit) : row \in 0..(limit - 1)}

\* int i = row / N
GridI(N, row) == row \div N

\* int j = row % N
GridJ(N, row) == row % N

\* count_nnz with "i < N" for "i < N - 1"
CountNnzRowTopAlways(N, row) ==
  1 + (IF GridI(N, row) > 0 THEN 1 ELSE 0)
    + (IF GridJ(N, row) > 0 THEN 1 ELSE 0)
    + (IF GridI(N, row) < N THEN 1 ELSE 0)
    + (IF GridJ(N, row) < N - 1 THEN 1 ELSE 0)

\* count_nnz without the test "j > 0"
CountNnzRowNoLeft(N, row) ==
  1 + (IF GridI(N, row) > 0 THEN 1 ELSE 0)
    + (IF GridI(N, row) < N - 1 THEN 1 ELSE 0)
    + (IF GridJ(N, row) < N - 1 THEN 1 ELSE 0)

\* count_nnz, the body of the loop: nnz_for_this_node
CountNnzRow(N, row) ==
  1 + (IF GridI(N, row) > 0 THEN 1 ELSE 0)
    + (IF GridJ(N, row) > 0 THEN 1 ELSE 0)
    + (IF GridI(N, row) < N - 1 THEN 1 ELSE 0)
    + (IF GridJ(N, row) < N - 1 THEN 1 ELSE 0)

\* count_nnz<<<256, 256>>>(cuda_nnz, N): row_offsets[row] = nnz_for_this_node
CountNnzKernel(N, nthreads) ==
  Table([row \in KernelRows(nthreads, N * N) |-> CountNnzRow(N, row)])

\* assembleA with the last two blocks exchanged
RowEntriesRightBeforeTop(N, row) ==
  LET i == GridI(N, row)
      j == GridJ(N, row)
  IN  << <<i * N + j, 4>> >>
      \o (IF i > 0 THEN << <<(i - 1) * N + j, 0 - 1>> >> ELSE << >>)
      \o (IF j > 0 THEN << <<i * N + (j - 1), 0 - 1>> >> ELSE << >>)
      \o (IF j < N - 1 THEN << <<i * N + (j + 1), 0 - 1>> >> ELSE << >>)
      \o (IF i < N - 1 THEN << <<(i + 1) * N + j, 0 - 1>> >> ELSE << >>)

\* assembleA, the body of the loop: the <<column, value>> pairs in the order
\* of the stores; this_row_offset advances by one after each
RowEntries(N, row) ==
  LET i == GridI(N, row)
      j == GridJ(N, row)
  IN  << <<i * N + j, 4>> >>
      \o (IF i > 0 THEN << <<(i - 1) * N + j, 0 - 1>> >> ELSE << >>)
      \o (IF j > 0 THEN << <<i * N + (j - 1), 0 - 1>> >> ELSE << >>)
      \o (IF i < N - 1 THEN << <<(i + 1) * N + j, 0 - 1>> >> ELSE << >>)
      \o (IF j < N - 1 THEN << <<i * N + (j + 1), 0 - 1>> >> ELSE << >>)

\* the stores of one row: <<position, column, value>>, from row_offsets[row]
RowWrites(N, row, this_row_offset) ==
  LET e == RowEntries(N, row)
  IN  [k \in 1..Len(e) |-> <<this_row_offset + k - 1, e[k][1], e[k][2]>>]

\* assembleA<<<16, 16>>>(row_offsets, col_indices, values, N): row -> its stores
AssembleKernel(offsets, N, nthreads) ==
  Table([row \in KernelRows(nthreads, N * N) |-> RowWrites(N, row, offsets[row])])

\* main: malloc / cudaMalloc(sizeof(int) * N * N) for nnz and row_offsets
RowBufferLen(N) == N * N

\* count_nnz<<<256, 256>>>
CountThreads == 256 * 256

\* assembleA<<<16, 16>>>
FillThreads == 16 * 16

---------------------------------------------------------------------------
(* main and solve_system up to the call of conjugate_gradient.             *)
(* A store beyond the end of a device allocation is undefined.  Two        *)
(* outcomes are kept: the cell is padding of the allocation and keeps the  *)
(* value ("padding"), or it belongs to another object and holds whatever   *)
(* that object's owner put there ("object").  A load beyond the end of an  *)
(* allocation that nothing wrote returns an arbitrary value (garbage).      *)

\* the content main finds in cell i of a buffer of len cells after stores w
Cell(w, i, len, adj, junk) == IF i < len \/ adj = "padding" THEN w[i] ELSE junk

\* count_nnz<<<256, 256>>>(cuda_nnz, N)
CountPhase ==
  /\ apc = "count"
  /\ cuda_nnz' = CountNnzKernel(n, CountThreads)
  /\ apc' = "scan"
  /\ UNCHANGED <<n, garbage, adjacent, row_offsets, nnz_total, col_indices,
                 values, emitted>>
  /\ UNCHANGED <<scanVars, cgVars, extVars>>

\* exclusive_scan(cuda_nnz, cuda_row_offsets, N * N + 1): the input has one
\* element more than cuda_nnz holds
CallExclusiveScan ==
  /\ apc = "scan"
  /\ scanN' = n * n + 1
  /\ X' = [i \in 0..(n * n) |->
             IF i < RowBufferLen(n) THEN cuda_nnz[i] ELSE garbage]
  /\ gdim' = NumBlocks /\ bdim' = ThreadsPerBlock
  /\ elemType' = "int"
  /\ Y' = EmptyMap /\ carries' = EmptyMap /\ readsX' = {}
  /\ spc' = "k1"
  /\ apc' = "scanning"
  /\ UNCHANGED <<n, cuda_nnz, garbage, adjacent, row_offsets, nnz_total,
                 col_indices, values, emitted>>
  /\ UNCHANGED <<build, cgVars, extVars>>

\* exclusive_scan returns; cuda_row_offsets holds N * N elements
ScanReturn ==
  /\ apc = "scanning" /\ spc = "done"
  /\ \E adj \in {"padding", "object"} :
       /\ adjacent' = adj
       /\ row_offsets' = [i \in DOMAIN Y |->
                            Cell(Y, i, RowBufferLen(n), adj, garbage)]
  /\ spc' = "idle"
  /\ apc' = "solve"
  /\ UNCHANGED <<n, cuda_nnz, garbage, nnz_total, col_indices, values, emitted>>
  /\ UNCHANGED <<build, elemType, X, scanN, gdim, bdim, Y, carries, readsX>>
  /\ UNCHANGED <<cgVars, extVars>>

\* solve_system: csr_rowoffsets is a copy of the first n * n elements;
\* int nnz_total = csr_rowoffsets[N - 1]; the CSR arrays get nnz_total cells
SolveSystemAlloc ==
  /\ apc = "solve"
  /\ nnz_total' = row_offsets[n * n - 1]
  /\ apc' = "fill"
  /\ UNCHANGED <<n, cuda_nnz, garbage, adjacent, row_offsets, col_indices,
                 values, emitted>>
  /\ UNCHANGED <<scanVars, cgVars, extVars>>

\* assembleA<<<16, 16>>>(cuda_csr_rowoffsets, cuda_csr_colindices,
\*                       cuda_csr_values, n)
FillPhase ==
  /\ apc = "fill"
  /\ \E w \in {AssembleKernel(row_offsets, n, FillThreads)} :
       LET stores == UNION {{w[row][k] : k \in 1..Len(w[row])} : row \in DOMAIN w}
           at(p) == CHOOSE st \in stores : st[1] = p
           cols == [p \in {st[1] : st \in stores} |-> at(p)[2]]
           vals == [p \in {st[1] : st \in stores} |-> at(p)[3]]
       IN  /\ emitted' = w
           /\ col_indices' = Table([p \in DOMAIN cols |->
                                Cell(cols, p, nnz_total, adjacent, garbage)])
           /\ values' = Table([p \in DOMAIN vals |->
                                Cell(vals, p, nnz_total, adjacent, garbage)])
  /\ apc' = "done"
  /\ UNCHANGED <<n, cuda_nnz, garbage, adjacent, row_offsets, nnz_total>>
  /\ UNCHANGED <<scanVars, cgVars, extVars>>

\* no scan has been launched
ScanReset ==
  /\ elemType = "int"
  /\ X = EmptyMap /\ scanN = 0 /\ gdim = NumBlocks /\ bdim = ThreadsPerBlock
  /\ Y = EmptyMap /\ carries = EmptyMap /\ readsX = {} /\ spc = "idle"

ScanIdle == build = "cuda" /\ ScanReset

InitAsm ==
  /\ n \in 1..MaxGrid
  /\ garbage \in GarbageValues
  /\ adjacent = "padding"
  /\ cuda_nnz = EmptyMap /\ row_offsets = EmptyMap /\ nnz_total = 0
  /\ col_indices = EmptyMap /\ values = EmptyMap /\ emitted = EmptyMap
  /\ apc = "count"
  /\ build \in Builds
  /\ ScanReset /\ CgIdle /\ ExtIdle

NextAsm ==
  \/ CountPhase
  \/ CallExclusiveScan
  \/ LaunchScan1 /\ UNCHANGED <<asmVars, cgVars, extVars>>
  \/ LaunchScan2 /\ UNCHANGED <<asmVars, cgVars, extVars>>
  \/ LaunchScan3 /\ UNCHANGED <<asmVars, cgVars, extVars>>
  \/ ScanReturn
  \/ SolveSystemAlloc
  \/ FillPhase

SpecAsm == InitAsm /\ [][NextAsm]_vars

---------------------------------------------------------------------------
(* conjugate_gradient: the control flow of the host loop.  The vectors and  *)
(* the residual values are left out; the outcome of the tolerance test is   *)
(* any, as the residual may be any.                                         *)

\* the statement after position pc inside one pass through the loop body
NextInBody(pc) ==
  CASE pc = "matvec"  -> "dot_pAp"   \* cuda_csr_matvec_product(p, Ap)
    [] pc = "dot_pAp" -> "axpy_x"    \* cuda_dot_product(p, Ap); alpha
    [] pc = "axpy_x"  -> "axpy_r"    \* cuda_vecadd(solution, p, alpha)
    [] pc = "axpy_r"  -> "dot_rr"    \* cuda_vecadd(r, Ap, -alpha)
    [] pc = "dot_rr"  -> "tol"       \* cuda_dot_product(r, r)

\* if (iters > 10000) break;
CapReached(it) == it > IterCap

\* if (iters > 10000) "did NOT converge" else "converged"
ReportFor(it) == IF it > IterCap THEN "not_converged" ELSE "converged"

\* from the entry to the first statement of the loop: the work vectors, the
\* initial r.r, int iters = 0
CgEnter ==
  /\ cgpc = "enter"
  /\ iters' = 0
  /\ cgpc' = "matvec"
  /\ UNCHANGED <<exitBy, report>>

\* one of the kernel launches of the loop body, up to the tolerance test
CgStep ==
  /\ cgpc \in {"matvec", "dot_pAp", "axpy_x", "axpy_r", "dot_rr"}
  /\ cgpc' = NextInBody(cgpc)
  /\ UNCHANGED <<iters, exitBy, report>>

\* if (std::sqrt(residual_norm_squared / initial_residual_squared) < 1e-6) break;
CgToleranceMet ==
  /\ cgpc = "tol"
  /\ exitBy' = "tolerance"
  /\ cgpc' = "report"
  /\ UNCHANGED <<iters, report>>

CgToleranceNotMet ==
  /\ cgpc = "tol"
  /\ cgpc' = "axpy_p"
  /\ UNCHANGED <<iters, exitBy, report>>

\* beta = residual_norm_squared / beta; cuda_vecadd2(p, r, beta)
CgDirection ==
  /\ cgpc = "axpy_p"
  /\ cgpc' = "cap"
  /\ UNCHANGED <<iters, exitBy, report>>

\* if (iters > 10000) break; ++iters;
CgCapCheck ==
  /\ cgpc = "cap"
  /\ IF CapReached(iters)
     THEN exitBy' = "cap" /\ cgpc' = "report" /\ UNCHANGED iters
     ELSE iters' = iters + 1 /\ cgpc' = "matvec" /\ UNCHANGED exitBy
  /\ UNCHANGED report

\* after the loop: the copy of the solution and the message
CgReport ==
  /\ cgpc = "report"
  /\ report' = ReportFor(iters)
  /\ cgpc' = "done"
  /\ UNCHANGED <<iters, exitBy>>

InitCG ==
  /\ iters = 0 /\ cgpc = "enter" /\ exitBy = "none" /\ report = "none"
  /\ ScanIdle /\ AsmIdle /\ ExtIdle

NextCG ==
  \/ CgEnter /\ UNCHANGED <<scanVars, asmVars, extVars>>
  \/ CgStep /\ UNCHANGED <<scanVars, asmVars, extVars>>
  \/ CgToleranceMet /\ UNCHANGED <<scanVars, asmVars, extVars>>
  \/ CgToleranceNotMet /\ UNCHANGED <<scanVars, asmVars, extVars>>
  \/ CgDirection /\ UNCHANGED <<scanVars, asmVars, extVars>>
  \/ CgCapCheck /\ UNCHANGED <<scanVars, asmVars, extVars>>
  \/ CgReport /\ UNCHANGED <<scanVars, asmVars, extVars>>

SpecCG == InitCG /\ [][NextCG]_vars

\* the host thread runs conjugate_gradient statement after statement: no
\* statement that can be executed waits for ever
FairSpecCG == SpecCG /\ WF_vars(NextCG)

---------------------------------------------------------------------------
(* conjugate_gradient: the host, the default stream and the device.         *)
(* Every kernel is launched without a stream argument, so it is issued to   *)
(* the default stream: the launch returns at once, and the device takes the *)
(* operations of the stream one after another in the order of issue.  A     *)
(* cudaMemcpy to the device goes through the same stream; a cudaMemcpy to   *)
(* the host returns when the stream has drained and the copy is done.       *)
(* The vectors are left out.  A scalar is the set of the partial sums it is *)
(* made of, each named <<site, pass, block>>.                               *)

\* the blocks of a reduction that are told apart
MaxDotBlocks == 2

\* the kernel launched at a site of conjugate_gradient
KernelAt(site) ==
  CASE site \in {"init_dot", "dot_pAp", "dot_rr"} -> "cuda_dot_product"
    [] site = "matvec" -> "cuda_csr_matvec_product"
    [] site \in {"axpy_x", "axpy_r"} -> "cuda_vecadd"
    [] site = "axpy_p" -> "cuda_vecadd2"
    [] site \in {"init_reset", "reset_pAp", "reset_rr"} -> "cudaMemcpy"

\* the pointer arguments at a site
ArgsAt(site) ==
  CASE site = "init_dot" -> [x |-> "cuda_r", y |-> "cuda_r", result |-> "cuda_scalar"]
    [] site = "matvec" ->
         [csr_rowoffsets |-> "csr_rowoffsets", csr_colindices |-> "csr_colindices",
          csr_values |-> "csr_values", x |-> "cuda_p", y |-> "cuda_Ap"]
    [] site = "dot_pAp" -> [x |-> "cuda_p", y |-> "cuda_Ap", result |-> "cuda_scalar"]
    [] site = "axpy_x" -> [x |-> "cuda_solution", y |-> "cuda_p"]
    [] site = "axpy_r" -> [x |-> "cuda_r", y |-> "cuda_Ap"]
    [] site = "dot_rr" -> [x |-> "cuda_r", y |-> "cuda_r", result |-> "cuda_scalar"]
    [] site = "axpy_p" -> [x |-> "cuda_p", y |-> "cuda_r"]
    [] site \in {"init_reset", "reset_pAp", "reset_rr"} ->
         [dst |-> "cuda_scalar", src |-> "zero"]

\* a matrix-vector product that stores into the matrix values
MatvecWritesValues(args) == {args.csr_values}

\* cuda_csr_matvec_product: y[i] = sum
MatvecWrites(args) == {args.y}

\* the parameters a kernel stores through
KernelWrites(kernel, args) ==
  CASE kernel = "cuda_csr_matvec_product" -> MatvecWrites(args)
    [] kernel = "cuda_vecadd" -> {args.x}      \* x[i] += alpha * y[i]
    [] kernel = "cuda_vecadd2" -> {args.x}     \* x[i] = y[i] + alpha * x[i]
    [] kernel = "cuda_dot_product" -> {args.result}  \* atomicAdd(result, ...)
    [] kernel = "cudaMemcpy" -> {args.dst}

WritesAt(site) == KernelWrites(KernelAt(site), ArgsAt(site))

\* the position after a launch or a copy
AfterSite(pc) ==
  CASE pc = "init_reset" -> "init_dot"
    [] pc = "init_dot"   -> "init_read"
    [] pc = "matvec"     -> "reset_pAp"
    [] pc = "reset_pAp"  -> "dot_pAp"
    [] pc = "dot_pAp"    -> "read_pAp"
    [] pc = "axpy_x"     -> "axpy_r"
    [] pc = "axpy_r"     -> "reset_rr"
    [] pc = "reset_rr"   -> "dot_rr"
    [] pc = "dot_rr"     -> "read_rr"

\* a device that starts an operation while another is running
MayStartConcurrently(run) == TRUE

\* the default stream: an operation starts when the one before it has completed
MayStart(run) == run = {}

\* a copy to the host that does not wait for the stream
ReadbackWithoutSync(pend, run) == TRUE

\* cudaMemcpy(..., cudaMemcpyDeviceToHost): after all operations issued before
ReadbackMayProceed(pend, run) == pend = << >> /\ run = {}

\* the value of *cuda_scalar as the host reads it
Val(scalar) == <<"val", scalar>>

\* the quotient with numerator and denominator exchanged
QuotientInverted(num, den) == <<"div", den, num>>

\* alpha = residual_norm_squared / alpha; beta = residual_norm_squared / beta
Quotient(num, den) == <<"div", num, den>>

Issue(site) == pending' = Append(pending, [site |-> site, pass |-> iters])

\* std::fill(solution, ...), the cudaMallocs, the copies of rhs and solution
\* to the device, double residual_norm_squared = 0
HostEnter ==
  /\ cgpc = "enter"
  /\ writtenBufs' = writtenBufs \cup {"solution", "cuda_p", "cuda_r", "cuda_solution"}
  /\ residual_norm_squared' = Val({})
  /\ cgpc' = "init_reset"
  /\ UNCHANGED <<iters, exitBy, report, pending, running, cuda_scalar,
                 initial_residual_squared, alpha, beta, lastKernel, reductions,
                 tolTests>>

\* cudaMemcpy(cuda_scalar, &zero, ...); before the second reduction of a pass
\* also beta = residual_norm_squared
HostReset ==
  /\ cgpc \in {"init_reset", "reset_pAp", "reset_rr"}
  /\ Issue(cgpc)
  /\ beta' = IF cgpc = "reset_rr" THEN residual_norm_squared ELSE beta
  /\ cgpc' = AfterSite(cgpc)
  /\ UNCHANGED <<iters, exitBy, report, running, cuda_scalar,
                 residual_norm_squared, initial_residual_squared, alpha,
                 writtenBufs, lastKernel, reductions, tolTests>>

\* kernel<<<512, 512>>>(...): the launch returns without waiting
HostLaunch ==
  /\ cgpc \in {"init_dot", "matvec", "dot_pAp", "axpy_x", "axpy_r", "dot_rr"}
  /\ Issue(cgpc)
  /\ reductions' = IF KernelAt(cgpc) = "cuda_dot_product" THEN reductions + 1
                   ELSE reductions
  /\ cgpc' = AfterSite(cgpc)
  /\ UNCHANGED <<iters, exitBy, report, running, cuda_scalar,
                 residual_norm_squared, initial_residual_squared, alpha, beta,
                 writtenBufs, lastKernel, tolTests>>

\* cudaMemcpy(&residual_norm_squared, cuda_scalar, ...) before the loop;
\* initial_residual_squared = residual_norm_squared; iters = 0
HostReadInitial ==
  /\ cgpc = "init_read"
  /\ ReadbackMayProceed(pending, running)
  /\ residual_norm_squared' = Val(cuda_scalar)
  /\ initial_residual_squared' = Val(cuda_scalar)
  /\ iters' = 0
  /\ cgpc' = "matvec"
  /\ UNCHANGED <<exitBy, report, pending, running, cuda_scalar, alpha, beta,
                 writtenBufs, lastKernel, reductions, tolTests>>

\* cudaMemcpy(&alpha, cuda_scalar, ...); alpha = residual_norm_squared / alpha
HostReadAlpha ==
  /\ cgpc = "read_pAp"
  /\ ReadbackMayProceed(pending, running)
  /\ alpha' = Quotient(residual_norm_squared, Val(cuda_scalar))
  /\ cgpc' = "axpy_x"
  /\ UNCHANGED <<iters, exitBy, report, pending, running, cuda_scalar,
                 residual_norm_squared, initial_residual_squared, beta,
                 writtenBufs, lastKernel, reductions, tolTests>>

\* cudaMemcpy(&residual_norm_squared, cuda_scalar, ...) in the loop
HostReadResidual ==
  /\ cgpc = "read_rr"
  /\ ReadbackMayProceed(pending, running)
  /\ residual_norm_squared' = Val(cuda_scalar)
  /\ cgpc' = "tol"
  /\ UNCHANGED <<iters, exitBy, report, pending, running, cuda_scalar,
                 initial_residual_squared, alpha, beta, writtenBufs, lastKernel,
                 reductions, tolTests>>

\* the tolerance test, with either outcome
HostTolerance ==
  /\ cgpc = "tol"
  /\ tolTests' = tolTests + 1
  /\ \/ exitBy' = "tolerance" /\ cgpc' = "copy_out"
     \/ cgpc' = "axpy_p" /\ UNCHANGED exitBy
  /\ UNCHANGED <<iters, report, pending, running, cuda_scalar,
                 residual_norm_squared, initial_residual_squared, alpha, beta,
                 writtenBufs, lastKernel, reductions>>

\* beta = residual_norm_squared / beta; cuda_vecadd2<<<512, 512>>>(N, cuda_p, cuda_r, beta)
HostDirection ==
  /\ cgpc = "axpy_p"
  /\ beta' = Quotient(residual_norm_squared, beta)
  /\ Issue("axpy_p")
  /\ cgpc' = "cap"
  /\ UNCHANGED <<iters, exitBy, report, running, cuda_scalar,
                 residual_norm_squared, initial_residual_squared, alpha,
                 writtenBufs, lastKernel, reductions, tolTests>>

\* if (iters > 10000) break; ++iters;
HostCapCheck ==
  /\ cgpc = "cap"
  /\ IF CapReached(iters)
     THEN exitBy' = "cap" /\ cgpc' = "copy_out" /\ UNCHANGED iters
     ELSE iters' = iters + 1 /\ cgpc' = "matvec" /\ UNCHANGED exitBy
  /\ UNCHANGED <<report, pending, running, cuda_scalar, residual_norm_squared,
                 initial_residual_squared, alpha, beta, writtenBufs, lastKernel,
                 reductions, tolTests>>

\* cudaMemcpy(solution, cuda_solution, ...), cudaDeviceSynchronize, the message
HostCopyOut ==
  /\ cgpc = "copy_out"
  /\ ReadbackMayProceed(pending, running)
  /\ writtenBufs' = writtenBufs \cup {"solution"}
  /\ report' = ReportFor(iters)
  /\ cgpc' = "done"
  /\ UNCHANGED <<iters, exitBy, pending, running, cuda_scalar,
                 residual_norm_squared, initial_residual_squared, alpha, beta,
                 lastKernel, reductions, tolTests>>

\* the device takes the next operation of the stream
DevStart ==
  /\ pending # << >>
  /\ MayStart(running)
  /\ running' = running \cup {[site |-> Head(pending).site,
                               pass |-> Head(pending).pass, added |-> {}]}
  /\ pending' = Tail(pending)
  /\ UNCHANGED <<cgVars, cuda_scalar, residual_norm_squared,
                 initial_residual_squared, alpha, beta, writtenBufs, lastKernel,
                 reductions, tolTests>>

\* cuda_dot_product: thread 0 of one more block does atomicAdd(result, shared_mem[0])
DevBlockAdd ==
  \E r \in running : \E b \in (1..MaxDotBlocks) \ r.added :
    /\ KernelAt(r.site) = "cuda_dot_product"
    /\ cuda_scalar' = cuda_scalar \cup {<<r.site, r.pass, b>>}
    /\ running' = (running \ {r}) \cup {[r EXCEPT !.added = r.added \cup {b}]}
    /\ UNCHANGED <<cgVars, pending, residual_norm_squared,
                   initial_residual_squared, alpha, beta, writtenBufs,
                   lastKernel, reductions, tolTests>>

\* an operation completes: a copy of zero has emptied the scalar, a kernel
\* has stored through its output parameters
DevFinish ==
  \E r \in running :
    /\ KernelAt(r.site) = "cuda_dot_product" => r.added = 1..MaxDotBlocks
    /\ running' = running \ {r}
    /\ cuda_scalar' = IF KernelAt(r.site) = "cudaMemcpy" THEN {} ELSE cuda_scalar
    /\ writtenBufs' = writtenBufs \cup WritesAt(r.site)
    /\ lastKernel' = IF KernelAt(r.site) = "cudaMemcpy" THEN lastKernel
                     ELSE [site |-> r.site, pass |-> r.pass]
    /\ UNCHANGED <<cgVars, pending, residual_norm_squared,
                   initial_residual_squared, alpha, beta, reductions, tolTests>>

InitStream ==
  /\ iters = 0 /\ cgpc = "enter" /\ exitBy = "none" /\ report = "none"
  /\ StreamIdle /\ DotIdle /\ MatvecIdle /\ IncIdle /\ BlockIdle
  /\ ScanIdle /\ AsmIdle

NextStream ==
  \/ HostEnter /\ UNCHANGED <<scanVars, asmVars, dotVars, mvVars, incVars, blkVars>>
  \/ HostReset /\ UNCHANGED <<scanVars, asmVars, dotVars, mvVars, incVars, blkVars>>
  \/ HostLaunch /\ UNCHANGED <<scanVars, asmVars, dotVars, mvVars, incVars, blkVars>>
  \/ HostReadInitial /\ UNCHANGED <<scanVars, asmVars, dotVars, mvVars, incVars, blkVars>>
  \/ HostReadAlpha /\ UNCHANGED <<scanVars, asmVars, dotVars, mvVars, incVars, blkVars>>
  \/ HostReadResidual /\ UNCHANGED <<scanVars, asmVars, dotVars, mvVars, incVars, blkVars>>
  \/ HostTolerance /\ UNCHANGED <<scanVars, asmVars, dotVars, mvVars, incVars, blkVars>>
  \/ HostDirection /\ UNCHANGED <<scanVars, asmVars, dotVars, mvVars, incVars, blkVars>>
  \/ HostCapCheck /\ UNCHANGED <<scanVars, asmVars, dotVars, mvVars, incVars, blkVars>>
  \/ HostCopyOut /\ UNCHANGED <<scanVars, asmVars, dotVars, mvVars, incVars, blkVars>>
  \/ DevStart /\ UNCHANGED <<scanVars, asmVars, dotVars, mvVars, incVars, blkVars>>
  \/ DevBlockAdd /\ UNCHANGED <<scanVars, asmVars, dotVars, mvVars, incVars, blkVars>>
  \/ DevFinish /\ UNCHANGED <<scanVars, asmVars, dotVars, mvVars, incVars, blkVars>>

SpecStream == InitStream /\ [][NextStream]_vars

---------------------------------------------------------------------------
(* cuda_dot_product: one launch with result initially 0, thread by thread. *)
(* Every thread runs its statements in order; the threads of a block meet  *)
(* at __syncthreads() before every round of the tree reduction; threads of *)
(* the same and of different blocks interleave freely otherwise.           *)

\* the longest vectors
MaxDotLen == 5
\* blockDim.x is a power of two up to 2^MaxLogBlock (512 in every launch)
MaxLogBlock == 2
\* the most threads of a launch
MaxDotThreads == 4

RECURSIVE PowerOfTwo(_)
PowerOfTwo(e) == IF e = 0 THEN 1 ELSE 2 * PowerOfTwo(e - 1)

BlockSizes == {PowerOfTwo(e) : e \in 0..MaxLogBlock}

\* the values <<x[i], y[i]>> of the elements
DotPairs == {<<0 - 1, 1>>, <<2, 0 - 1>>}

\* for (int i = blockIdx.x * blockDim.x + threadIdx.x; i < N;
\*      i += blockDim.x * gridDim.x) dot += x[i] * y[i];  from index i on
RECURSIVE ThreadPartial(_, _, _, _, _)
ThreadPartial(xv, yv, N, i, step) ==
  IF i < N THEN xv[i] * yv[i] + ThreadPartial(xv, yv, N, i + step, step) ELSE 0

\* the tree reduction without its barrier (a variant of TreeSteps)
RECURSIVE TreeStepsNoBarrier(_)
TreeStepsNoBarrier(k) ==
  IF k > 0 THEN << <<"tree_add", k>> >> \o TreeStepsNoBarrier(k \div 2)
  ELSE << >>

\* for (int k = blockDim.x / 2; k > 0; k /= 2) { __syncthreads();
\*   if (threadIdx.x < k) shared_mem[threadIdx.x] += shared_mem[threadIdx.x + k]; }
\* from k on, as statements <<kind, k>>
RECURSIVE TreeSteps(_)
TreeSteps(k) ==
  IF k > 0 THEN << <<"sync", k>>, <<"tree_add", k>> >> \o TreeSteps(k \div 2)
  ELSE << >>

\* the statements of a thread: the grid-stride loop with the store of dot
\* (the loop touches only the thread's own dot and x and y, which nothing
\* stores to during the launch), the tree reduction, the atomicAdd
DotSteps(B) ==
  << <<"store_dot", 0>> >> \o TreeSteps(B \div 2) \o << <<"atomic_add", 0>> >>

\* statement st is nothing but a test that fails for thread t:
\* if (threadIdx.x < k), if (threadIdx.x == 0)
TestFails(st, t) ==
  \/ st[1] = "tree_add" /\ ~(t < st[2])
  \/ st[1] = "atomic_add" /\ t # 0

\* the next statement from j on that is more than a failing test for thread t
RECURSIVE SkipTests(_, _, _)
SkipTests(B, t, j) ==
  IF j <= Len(DotSteps(B)) /\ TestFails(DotSteps(B)[j], t)
  THEN SkipTests(B, t, j + 1)
  ELSE j

\* the statement thread t of block b is at
DotAt(b, t, kind) ==
  /\ dotpc[<<b, t>>] <= Len(DotSteps(dotB))
  /\ DotSteps(dotB)[dotpc[<<b, t>>]][1] = kind

DotThreads == (0..(dotG - 1)) \X (0..(dotB - 1))

\* *result = shared_mem[0]
PlainStore(old, v) == v

\* atomicAdd(result, shared_mem[0])
AtomicAdd(old, v) == old + v

\* shared_mem[threadIdx.x] = dot
DotStore(b, t) ==
  /\ DotAt(b, t, "store_dot")
  /\ shared_mem' = [shared_mem EXCEPT ![b] =
                      (t :> ThreadPartial(dotX, dotY, dotN, b * dotB + t,
                                          dotB * dotG)) @@ @]
  /\ dotWrites' = [dotWrites EXCEPT ![b] = @ \cup {<<t, t>>}]
  /\ dotpc' = [dotpc EXCEPT ![<<b, t>>] = SkipTests(dotB, t, @ + 1)]
  /\ UNCHANGED <<dotN, dotX, dotY, dotG, dotB, result, addedBlocks,
                 dotArrived, dotReads>>

\* __syncthreads(): thread t waits; the last thread of the block to arrive
\* releases them all
DotSync(b, t) ==
  /\ DotAt(b, t, "sync")
  /\ t \notin dotArrived[b]
  /\ IF dotArrived[b] \cup {t} = 0..(dotB - 1)
     THEN /\ dotArrived' = [dotArrived EXCEPT ![b] = {}]
          /\ dotpc' = [bt \in DOMAIN dotpc |->
                         IF bt[1] = b THEN SkipTests(dotB, bt[2], dotpc[bt] + 1)
                                      ELSE dotpc[bt]]
          /\ dotReads' = [dotReads EXCEPT ![b] = {}]
          /\ dotWrites' = [dotWrites EXCEPT ![b] = {}]
     ELSE /\ dotArrived' = [dotArrived EXCEPT ![b] = @ \cup {t}]
          /\ UNCHANGED <<dotpc, dotReads, dotWrites>>
  /\ UNCHANGED <<dotN, dotX, dotY, dotG, dotB, result, addedBlocks, shared_mem>>

\* what a load of shared_mem[slot] of block b can give: the value stored, or
\* anything when nothing has stored to the slot
SharedMemLoad(b, slot) ==
  IF slot \in DOMAIN shared_mem[b] THEN {shared_mem[b][slot]} ELSE GarbageValues

\* shared_mem[threadIdx.x] += shared_mem[threadIdx.x + k], threadIdx.x < k
DotTreeAdd(b, t) ==
  /\ DotAt(b, t, "tree_add")
  /\ \E k \in {DotSteps(dotB)[dotpc[<<b, t>>]][2]} :
       /\ \E mine \in SharedMemLoad(b, t), other \in SharedMemLoad(b, t + k) :
            shared_mem' = [shared_mem EXCEPT ![b] = (t :> (mine + other)) @@ @]
       /\ dotReads' = [dotReads EXCEPT ![b] = @ \cup {<<t, t>>, <<t, t + k>>}]
  /\ dotWrites' = [dotWrites EXCEPT ![b] = @ \cup {<<t, t>>}]
  /\ dotpc' = [dotpc EXCEPT ![<<b, t>>] = SkipTests(dotB, t, @ + 1)]
  /\ UNCHANGED <<dotN, dotX, dotY, dotG, dotB, result, addedBlocks, dotArrived>>

\* if (threadIdx.x == 0) atomicAdd(result, shared_mem[0])
BlockAtomicAdd(b, t) ==
  /\ DotAt(b, t, "atomic_add")
  /\ \E mine \in SharedMemLoad(b, t) : result' = AtomicAdd(result, mine)
  /\ addedBlocks' = addedBlocks \cup {b}
  /\ dotReads' = [dotReads EXCEPT ![b] = @ \cup {<<t, t>>}]
  /\ dotpc' = [dotpc EXCEPT ![<<b, t>>] = @ + 1]
  /\ UNCHANGED <<dotN, dotX, dotY, dotG, dotB, shared_mem, dotArrived, dotWrites>>

InitDot ==
  /\ dotN \in 0..MaxDotLen
  /\ \E xy \in [0..(dotN - 1) -> DotPairs] :
       /\ dotX = [i \in 0..(dotN - 1) |-> xy[i][1]]
       /\ dotY = [i \in 0..(dotN - 1) |-> xy[i][2]]
  /\ dotG \in 1..MaxDotBlocks
  /\ dotB \in BlockSizes
  /\ dotG * dotB <= MaxDotThreads
  /\ result = 0 /\ addedBlocks = {}
  /\ dotpc = [bt \in DotThreads |-> 1]
  /\ shared_mem = [b \in 0..(dotG - 1) |-> EmptyMap]
  /\ dotArrived = [b \in 0..(dotG - 1) |-> {}]
  /\ dotReads = [b \in 0..(dotG - 1) |-> {}]
  /\ dotWrites = [b \in 0..(dotG - 1) |-> {}]
  /\ ScanIdle /\ AsmIdle /\ CgIdle /\ StreamIdle /\ MatvecIdle
  /\ IncIdle /\ BlockIdle

NextDot ==
  /\ \E bt \in DotThreads :
       \/ DotStore(bt[1], bt[2])
       \/ DotSync(bt[1], bt[2])
       \/ DotTreeAdd(bt[1], bt[2])
       \/ BlockAtomicAdd(bt[1], bt[2])
  /\ UNCHANGED <<scanVars, asmVars, cgVars, streamVars, mvVars, incVars, blkVars>>

SpecDot == InitDot /\ [][NextDot]_vars

---------------------------------------------------------------------------
(* Properties of exclusive_scan *)

\* the exact sum of Xin[0..i-1], as a double
RECURSIVE PrefixSum(_, _, _)
PrefixSum(type, Xin, i) ==
  IF i = 0 THEN DoubleZero
  ELSE DoubleAdd(PrefixSum(type, Xin, i - 1), ElemToDouble(type, Xin[i - 1]))

SmallConfigs == (1..MaxDim) \X (1..MaxDim)

\* C1: for every integer input of length N >= 1 and every launch
\* configuration, when exclusive_scan has completed output[0] = 0,
\* output[i] is the exact sum of input[0..i-1] for every i < N, and no output
\* element outside [0, N) has been written.
C1_ScanIsExactPrefixSum ==
  (spc = "done" /\ scanN >= 1) =>
    /\ DOMAIN Y = 0..(scanN - 1)
    /\ ElemToDouble(elemType, Y[0]) = DoubleZero
    /\ \A i \in 0..(scanN - 1) :
         ElemToDouble(elemType, Y[i]) = PrefixSum(elemType, X, i)

\* C2: the output of the three kernels is the same for every number of blocks
\* and threads per block, for every N >= 0.
C2_ScanIndependentOfLaunch ==
  spc = "done" =>
    \A c \in SmallConfigs :
      Scan1Kernel(build, elemType, X, scanN, c[1], c[2]).diverged = {} =>
        Y = ExclusiveScanOut(build, elemType, X, scanN, c[1], c[2])

\* C3: exclusive_scan (256 blocks of 256 threads) with N = 0 terminates, reads
\* no input element and writes no output element; with N = 1 it writes
\* exactly output[0] = 0.  (Reading and writing nothing for N = 0, and the
\* N = 1 result, hold for the small launch configurations as well.)
C3_ScanBoundaryCases ==
  /\ scanN = 0 => (readsX = {} /\ DOMAIN Y = {})
  /\ (scanN = 0 /\ gdim = NumBlocks /\ bdim = ThreadsPerBlock) => spc # "hung"
  /\ scanN = 1 => DOMAIN Y \subseteq {0}
  /\ (scanN = 1 /\ spc = "done") =>
       (DOMAIN Y = {0} /\ ElemToDouble(elemType, Y[0]) = DoubleZero)

\* exclusive_scan's own launch has returned for N = 0
C3_Witness ==
  scanN = 0 /\ gdim = NumBlocks /\ bdim = ThreadsPerBlock /\ spc = "done"

---------------------------------------------------------------------------
(* Properties of the assembly of the Poisson matrix *)

\* the sum of f over 0..(k - 1)
RECURSIVE SumTo(_, _)
SumTo(f, k) == IF k = 0 THEN 0 ELSE SumTo(f, k - 1) + f[k - 1]

Abs(x) == IF x < 0 THEN 0 - x ELSE x

\* the grid points at distance one of the point of row, as rows
StencilNeighbours(N, row) ==
  {q \in 0..(N * N - 1) :
     Abs((q \div N) - (row \div N)) + Abs((q % N) - (row % N)) = 1}

\* the neighbour of row in one direction, as a sequence of length 0 or 1;
\* assembleA's comment calls the point (i - 1, j) the bottom neighbour
Bottom(N, row) == IF row - N \in StencilNeighbours(N, row) THEN <<row - N>> ELSE << >>
Left(N, row) == IF row - 1 \in StencilNeighbours(N, row) THEN <<row - 1>> ELSE << >>
Top(N, row) == IF row + N \in StencilNeighbours(N, row) THEN <<row + N>> ELSE << >>
Right(N, row) == IF row + 1 \in StencilNeighbours(N, row) THEN <<row + 1>> ELSE << >>

\* the entries of a row: the diagonal, then -1 at each of the columns cols
EntriesInOrder(row, cols) ==
  << <<row, 4>> >> \o [k \in 1..Len(cols) |-> <<cols[k], 0 - 1>>]

\* what assembleA stored for row, without the positions
EmittedEntries(row) ==
  [k \in 1..Len(emitted[row]) |-> <<emitted[row][k][2], emitted[row][k][3]>>]

\* every row has been stored at consecutive positions from row_offsets[row],
\* in the order given by order(N, row)
EmittedInOrder(order(_, _)) ==
  /\ DOMAIN emitted = 0..(n * n - 1)
  /\ \A row \in DOMAIN emitted :
       /\ EmittedEntries(row) = EntriesInOrder(row, order(n, row))
       /\ \A k \in 1..Len(emitted[row]) :
            emitted[row][k][1] = row_offsets[row] + k - 1

OrderOfTheClaim(N, row) == Bottom(N, row) \o Left(N, row) \o Right(N, row) \o Top(N, row)
OrderOfTheCode(N, row) == Bottom(N, row) \o Left(N, row) \o Top(N, row) \o Right(N, row)

CountDone == apc \notin {"idle", "count"}

\* C4: the nnz_total with which solve_system sizes col_indices and values
\* equals row_offsets[N], the sum of the nonzero counts of all N = n * n rows.
C4_NnzTotalIsSumOfCounts ==
  apc \in {"fill", "done"} => nnz_total = SumTo(cuda_nnz, n * n)

\* C5 as stated: the sum over all rows of count_nnz's count is 4N - 4n.
C5_TotalIs4NMinus4n ==
  CountDone => SumTo(cuda_nnz, n * n) = 4 * (n * n) - 4 * n

\* C5, amended: the sum over all rows of count_nnz's count is 5N - 4n, for
\* every grid size n >= 1.
C5_TotalIs5NMinus4n ==
  CountDone => SumTo(cuda_nnz, n * n) = 5 * (n * n) - 4 * n

\* the count phase has run on a grid with corner, edge and interior rows
C5_Witness == apc = "scan" /\ n = 3 /\ SumTo(cuda_nnz, 9) = 33

\* C6 as stated: each row is emitted as the diagonal entry (value 4, own
\* column) followed by one -1 entry per existing neighbour in the order
\* bottom, left, right, top.
C6_OrderBottomLeftRightTop ==
  apc = "done" => EmittedInOrder(OrderOfTheClaim)

\* C6, amended: each row is emitted as the diagonal entry (value 4, own
\* column) followed by one -1 entry per existing neighbour in the order
\* bottom (i-1, j), left (i, j-1), top (i+1, j), right (i, j+1), each at the
\* neighbour's linear index.
C6_OrderBottomLeftTopRight ==
  apc = "done" => EmittedInOrder(OrderOfTheCode)

\* an interior row, with all four neighbours, has been emitted
C6_Witness == apc = "done" /\ n = 3 /\ Len(emitted[4]) = 5

\* C7 as stated: every row's count is 1 plus the number of its existing
\* stencil neighbours, and is in {3, 4, 5}.
C7_CountIn345 ==
  CountDone =>
    /\ DOMAIN cuda_nnz = 0..(n * n - 1)
    /\ \A row \in DOMAIN cuda_nnz :
         /\ cuda_nnz[row] = 1 + Cardinality(StencilNeighbours(n, row))
         /\ cuda_nnz[row] \in {3, 4, 5}

\* C7, amended: every row's count is 1 plus the number of its existing
\* stencil neighbours; it is in {3, 4, 5} when n >= 2, and is 1 for the only
\* row of the grid with n = 1.
C7_CountIsOnePlusNeighbours ==
  CountDone =>
    /\ DOMAIN cuda_nnz = 0..(n * n - 1)
    /\ \A row \in DOMAIN cuda_nnz :
         /\ cuda_nnz[row] = 1 + Cardinality(StencilNeighbours(n, row))
         /\ n >= 2 => cuda_nnz[row] \in {3, 4, 5}
         /\ n = 1 => cuda_nnz[row] = 1

\* the count phase has stored a 3, a 4 and a 5
C7_Witness ==
  apc = "scan" /\ n = 3 /\ {cuda_nnz[row] : row \in DOMAIN cuda_nnz} = {3, 4, 5}

\* C8: after the count phase and the offset phase row_offsets[0] = 0,
\* row_offsets is non-decreasing and row_offsets[r+1] - row_offsets[r] is the
\* count of row r for every r in 0..N-1, the trailing row_offsets[N] included.
C8_RowOffsetsArePrefixSums ==
  apc \in {"solve", "fill", "done"} =>
    /\ DOMAIN row_offsets = 0..(n * n)
    /\ row_offsets[0] = 0
    /\ \A r \in 0..(n * n - 1) :
         /\ row_offsets[r] <= row_offsets[r + 1]
         /\ row_offsets[r + 1] - row_offsets[r] = cuda_nnz[r]

\* the positions of row r in the CSR arrays
RowPositions(r) ==
  {p \in row_offsets[r]..(row_offsets[r + 1] - 1) : p \in DOMAIN col_indices}

\* C9: the matrix produced by assembleA is symmetric: every stored column is
\* in [0, N), every row has exactly one diagonal entry, of value 4, and for
\* every stored off-diagonal entry (r, c, -1) the entry (c, r, -1) is stored.
C9_MatrixIsSymmetric ==
  apc = "done" =>
    \A r \in 0..(n * n - 1) :
      /\ Cardinality({p \in RowPositions(r) : col_indices[p] = r}) = 1
      /\ \A p \in RowPositions(r) :
           /\ col_indices[p] \in 0..(n * n - 1)
           /\ col_indices[p] = r => values[p] = 4
           /\ col_indices[p] # r =>
                /\ values[p] = 0 - 1
                /\ \E q \in RowPositions(col_indices[p]) :
                     col_indices[q] = r /\ values[q] = 0 - 1

---------------------------------------------------------------------------
(* Properties of conjugate_gradient *)

\* C10: conjugate_gradient reports "converged" exactly when it left the loop
\* through the tolerance test and reports non-convergence exactly when it left
\* through the iteration cap.
C10_ReportMatchesExit ==
  report # "none" =>
    /\ report = "converged" <=> exitBy = "tolerance"
    /\ report = "not_converged" <=> exitBy = "cap"

\* C11: conjugate_gradient always terminates, and no pass through the loop
\* (no matrix-vector product) starts once the iteration count is above 10000.
C11_TerminatesAtCap ==
  /\ <>(cgpc = "done")
  /\ [](cgpc = "matvec" => iters <= IterCap)

---------------------------------------------------------------------------
(* Properties of conjugate_gradient with the default stream *)

\* the kernel that the claimed order puts right before the kernel of site in
\* pass k: Ap = A*p, dot(p, Ap), solution += alpha*p, r -= alpha*Ap, dot(r, r),
\* (tolerance test), p = r + beta*p, and then the next pass
KernelBefore(site, k) ==
  CASE site = "init_dot" -> NoKernel
    [] site = "matvec"  -> IF k = 0 THEN [site |-> "init_dot", pass |-> 0]
                           ELSE [site |-> "axpy_p", pass |-> k - 1]
    [] site = "dot_pAp" -> [site |-> "matvec", pass |-> k]
    [] site = "axpy_x"  -> [site |-> "dot_pAp", pass |-> k]
    [] site = "axpy_r"  -> [site |-> "axpy_x", pass |-> k]
    [] site = "dot_rr"  -> [site |-> "axpy_r", pass |-> k]
    [] site = "axpy_p"  -> [site |-> "dot_rr", pass |-> k]

IsKernel(r) == KernelAt(r.site) # "cudaMemcpy"

\* C12: within every pass the device operations run one after another in the
\* order Ap = A*p, dot(p, Ap), solution += alpha*p, r -= alpha*Ap, dot(r, r),
\* tolerance test, p = r + beta*p: a kernel runs only when the kernel before
\* it in this order was the last to complete and nothing else is running, the
\* tolerance test of a pass is made after the pass's dot(r, r) has completed,
\* p = r + beta*p runs after the pass's tolerance test, and the first kernel
\* of pass k+1 runs after the last kernel of pass k.
C12_OperationsInOrder ==
  /\ Cardinality(running) <= 1
  /\ \A r \in running :
       /\ IsKernel(r) => lastKernel = KernelBefore(r.site, r.pass)
       /\ r.site = "axpy_p" => tolTests = r.pass + 1
  /\ cgpc = "tol" =>
       /\ lastKernel = [site |-> "dot_rr", pass |-> iters]
       /\ running = {} /\ pending = << >>
       /\ tolTests = iters

\* the matrix-vector product of the second pass is running
C12_Witness ==
  \E r \in running : r.site = "matvec" /\ r.pass = 1

\* the partial sums of the reduction launched at site in pass k
AllPartials(site, k) == {<<site, k, b>> : b \in 1..MaxDotBlocks}

\* C13: while a reduction launched by conjugate_gradient runs, the scalar
\* holds exactly the partial sums its blocks have added so far (so it held 0
\* when the reduction started), the copy of zero that precedes it was issued
\* after the value of the reduction before was read back, and what the host
\* reads back is the sum of the partial sums of every block of the reduction.
C13_AccumulatorZeroAndComplete ==
  /\ \A r \in running :
       KernelAt(r.site) = "cuda_dot_product" =>
         cuda_scalar = {<<r.site, r.pass, b>> : b \in r.added}
  /\ cgpc \in {"matvec", "reset_pAp", "dot_pAp", "read_pAp"} =>
       residual_norm_squared =
         Val(IF iters = 0 THEN AllPartials("init_dot", 0)
             ELSE AllPartials("dot_rr", iters - 1))
  /\ cgpc \in {"axpy_x", "axpy_r", "reset_rr", "dot_rr", "read_rr"} =>
       alpha[3] = Val(AllPartials("dot_pAp", iters))
  /\ cgpc \in {"tol", "axpy_p", "cap"} =>
       residual_norm_squared = Val(AllPartials("dot_rr", iters))

\* the host has read the second r.r of the loop
C13_Witness ==
  cgpc = "tol" /\ iters = 1 /\ residual_norm_squared = Val(AllPartials("dot_rr", 1))

\* the r.r of the pass before pass k
PreviousRR(k) ==
  Val(IF k = 0 THEN AllPartials("init_dot", 0) ELSE AllPartials("dot_rr", k - 1))

\* the value num / den
Ratio(num, den) == <<"div", num, den>>

\* C14: in every pass alpha is (the r.r of the pass before, the initial r.r
\* in the first pass) / p.Ap, beta is (the new r.r) / (that same old r.r), the
\* pass launches exactly two reductions, and initial_residual_squared is the
\* r.r computed before the loop, unchanged.
C14_CachedResidual ==
  /\ cgpc \in {"axpy_x", "axpy_r", "reset_rr", "dot_rr", "read_rr", "tol",
               "axpy_p", "cap"} =>
       alpha = Ratio(PreviousRR(iters), Val(AllPartials("dot_pAp", iters)))
  /\ cgpc = "cap" =>
       /\ beta = Ratio(Val(AllPartials("dot_rr", iters)), PreviousRR(iters))
       /\ reductions = 1 + 2 * (iters + 1)
  /\ cgpc = "matvec" => reductions = 1 + 2 * iters
  /\ cgpc \notin {"idle", "enter", "init_reset", "init_dot", "init_read"} =>
       initial_residual_squared = Val(AllPartials("init_dot", 0))

\* beta of the second pass has been computed
C14_Witness == cgpc = "cap" /\ iters = 1 /\ beta[1] = "div"

\* the matrix and the right-hand side
ReadOnlyBuffers == {"csr_rowoffsets", "csr_colindices", "csr_values", "rhs"}

\* C18: no step of conjugate_gradient writes to the CSR arrays or to rhs.
C18_CsrAndRhsUnchanged == writtenBufs \cap ReadOnlyBuffers = {}

\* the solver has returned after at least one full pass, and every kind of
\* kernel has stored its result
C18_Witness ==
  /\ cgpc = "done" /\ iters >= 1
  /\ {"cuda_Ap", "cuda_p", "cuda_r", "cuda_solution", "cuda_scalar", "solution"}
       \subseteq writtenBufs

---------------------------------------------------------------------------
(* Properties of cuda_dot_product *)

\* the sum of xv[i] * yv[i] over 0..(k - 1)
RECURSIVE InnerProduct(_, _, _)
InnerProduct(xv, yv, k) ==
  IF k = 0 THEN 0 ELSE InnerProduct(xv, yv, k - 1) + xv[k - 1] * yv[k - 1]

\* the indices thread t of block b visits
DotIndices(N, G, B, b, t) == {i \in 0..(N - 1) : i % (G * B) = b * B + t}

\* every thread of the launch has run its last statement
DotEnded == \A bt \in DotThreads : dotpc[bt] > Len(DotSteps(dotB))

\* the accesses of two threads of a block to one slot of shared_mem since the
\* block's last barrier, one of them a store
DotConflicts ==
  {c \in UNION {{b} \X dotWrites[b] \X (dotReads[b] \cup dotWrites[b]) :
                  b \in DOMAIN dotWrites} :
     c[2][2] = c[3][2] /\ c[2][1] # c[3][1]}

\* C15: for every N >= 0 (also more elements than threads), every number of
\* blocks and every interleaving of the threads of all blocks, when
\* cuda_dot_product has completed with result initially 0 result is the sum
\* of x[i] * y[i] over [0, N); every index is visited by exactly one thread;
\* no thread stores a slot of shared_mem that another thread of its block
\* loads or stores between the same two barriers, so the tree reduction
\* loses no partial; at every moment result is the sum of the products of
\* the indices of the blocks that have added (no addition is lost).
\* (blockDim.x is a power of two, as in every launch of the kernel.)
C15_DotProductIsSum ==
  /\ DotEnded => result = InnerProduct(dotX, dotY, dotN)
  /\ \A i \in 0..(dotN - 1) :
       Cardinality({bt \in DotThreads :
                      i \in DotIndices(dotN, dotG, dotB, bt[1], bt[2])}) = 1
  /\ DotConflicts = {}
  /\ result = InnerProduct(
                [i \in 0..(dotN - 1) |->
                   IF (i % (dotG * dotB)) \div dotB \in addedBlocks
                   THEN dotX[i] ELSE 0],
                dotY, dotN)

\* a launch of two blocks of two threads with more elements than threads has
\* completed: every thread has stored its dot, both blocks have reduced and
\* thread 0 of each has added
C15_Witness ==
  /\ dotN > dotG * dotB /\ dotG = 2 /\ dotB = 2
  /\ DotEnded /\ addedBlocks = {0, 1}
  /\ result # 0

---------------------------------------------------------------------------
(* cuda_csr_matvec_product: one launch on the CSR arrays of the n x n       *)
(* Poisson matrix (N = n * n rows, N + 1 row offsets).  The blocks run in   *)
(* any order; a block is one step.                                          *)

\* the exact row offsets of the n x n Poisson matrix: N + 1 elements
PoissonRowOffsets(N) ==
  LET counts == CountNnzKernel(N, CountThreads)
  IN  Table([r \in 0..(N * N) |-> SumTo(counts, r)])

\* position -> <<column, value>> as assembleA stores them
PoissonEntries(N) ==
  LET w == AssembleKernel(PoissonRowOffsets(N), N, FillThreads)
      stores == UNION {{w[row][k] : k \in 1..Len(w[row])} : row \in DOMAIN w}
  IN  Table([p \in {st[1] : st \in stores} |->
               LET st == CHOOSE e \in stores : e[1] = p IN <<st[2], st[3]>>])

\* for (int k = csr_rowoffsets[i]; k < csr_rowoffsets[i + 1]; k++)
\*   sum += csr_values[k] * x[csr_colindices[k]];   from position k on
RECURSIVE MatvecRowFrom(_, _, _, _, _)
MatvecRowFrom(ci, va, xv, k, stop) ==
  IF k < stop
  THEN va[k] * xv[ci[k]] + MatvecRowFrom(ci, va, xv, k + 1, stop)
  ELSE 0

\* a loop that starts one position late
MatvecRowSkipFirst(ro, ci, va, xv, i) ==
  MatvecRowFrom(ci, va, xv, ro[i] + 1, ro[i + 1])

\* the value stored in y[i]
MatvecRow(ro, ci, va, xv, i) == MatvecRowFrom(ci, va, xv, ro[i], ro[i + 1])

\* the threads of block b that store y[row]: thread t runs
\* for (int i = blockIdx.x * blockDim.x + threadIdx.x; i < N; i += blockDim.x * gridDim.x)
MatvecStorers(N, G, B, b, row) ==
  {t \in 0..(B - 1) : row \in GridStrideRows(b * B + t, G * B, N)}

\* one more block runs all its threads
MatvecBlock ==
  \E b \in (0..(mvG - 1)) \ mvDone :
    LET rows == {row \in 0..(mvN - 1) : MatvecStorers(mvN, mvG, mvB, b, row) # {}}
    IN  /\ mvY' = Table([row \in DOMAIN mvY \cup rows |->
                     IF row \in rows
                     THEN MatvecRow(csr_rowoffsets, csr_colindices, csr_values,
                                    mvX, row)
                     ELSE mvY[row]])
        /\ mvStores' = Table([row \in 0..(mvN - 1) |->
                          mvStores[row]
                          + Cardinality(MatvecStorers(mvN, mvG, mvB, b, row))])
        /\ mvDone' = mvDone \cup {b}
        /\ UNCHANGED <<mvN, csr_rowoffsets, csr_colindices, csr_values, mvX,
                       mvG, mvB>>

InitMatvec ==
  /\ \E size \in 0..MaxGrid : \E c \in Values : \E d \in Values :
       /\ mvN = size * size
       /\ csr_rowoffsets = PoissonRowOffsets(size)
       /\ csr_colindices = Table([p \in DOMAIN PoissonEntries(size) |->
                                    PoissonEntries(size)[p][1]])
       /\ csr_values = Table([p \in DOMAIN PoissonEntries(size) |->
                                PoissonEntries(size)[p][2]])
       /\ mvX = Table([i \in 0..(size * size - 1) |-> c * (i + 1) + d])
       /\ mvStores = Table([i \in 0..(size * size - 1) |-> 0])
  /\ mvY = EmptyMap
  /\ mvG \in 1..MaxDim /\ mvB \in 1..MaxDim
  /\ mvDone = {}
  /\ ScanIdle /\ AsmIdle /\ CgIdle /\ StreamIdle /\ DotIdle
  /\ IncIdle /\ BlockIdle

NextMatvec ==
  MatvecBlock
  /\ UNCHANGED <<scanVars, asmVars, cgVars, streamVars, dotVars, incVars, blkVars>>

SpecMatvec == InitMatvec /\ [][NextMatvec]_vars

---------------------------------------------------------------------------
(* Properties of cuda_csr_matvec_product *)

\* the sum of f over the finite set S
RECURSIVE SumOver(_, _)
SumOver(S, f) ==
  IF S = {} THEN 0
  ELSE LET e == CHOOSE e \in S : TRUE IN f[e] + SumOver(S \ {e}, f)

\* values[k] * x[col_indices[k]] for the positions of a row
RowProducts(row) ==
  [k \in csr_rowoffsets[row]..(csr_rowoffsets[row + 1] - 1) |->
     csr_values[k] * mvX[csr_colindices[k]]]

\* C16: when cuda_csr_matvec_product has completed, for every row in [0, N)
\* y[row] is the sum of values[k] * x[col_indices[k]] over k in
\* [row_offsets[row], row_offsets[row + 1]), and at every moment every y[row]
\* has been stored at most once, by a single thread; at the end exactly once.
C16_MatvecRowsOwnedOnce ==
  /\ \A row \in DOMAIN mvY :
       /\ mvY[row] = SumOver(DOMAIN RowProducts(row), RowProducts(row))
       /\ mvStores[row] = 1
  /\ \A row \in DOMAIN mvStores : mvStores[row] <= 1
  /\ mvDone = 0..(mvG - 1) => DOMAIN mvY = 0..(mvN - 1)

\* a launch with fewer threads than rows has completed on the 3 x 3 matrix
C16_Witness ==
  /\ mvN = 9 /\ mvG * mvB < mvN /\ mvG >= 2
  /\ mvDone = 0..(mvG - 1)
  /\ mvY[0] # 0

---------------------------------------------------------------------------
(* Properties of inclusive_scan *)

\* C17: for every integer input of length N >= 1 the result z_in of
\* inclusive_scan satisfies z_in[i] = the sum of input[0..i] for every i in
\* [0, N), which is the exclusive output[i] + input[i].
C17_InclusiveIsPrefixSum ==
  (spc = "inclusive" /\ scanN >= 1) =>
    /\ DOMAIN z_in = 0..(scanN - 1)
    /\ \A i \in 0..(scanN - 1) :
         /\ z_in[i] = PrefixSum(elemType, X, i + 1)
         /\ z_in[i] = DoubleAdd(Y[i], X[i])

---------------------------------------------------------------------------
(* scan_kernel_1, scan_kernel_2 and cuda_dot_product: the threads of one
   block, statement by statement.  blockDim.x is a power of two, as in every
   launch of the program (256 for the scan kernels, 512 for the dot product). *)

\* the largest N of the thread-level runs
MaxBlockN == 4

\* the block sizes of the thread-level runs
ThreadBlockSizes == {B \in BlockSizes : B <= MaxBlockN}

\* the strides of the inner loop: 1, 2, 4, ... below blockDim.x
RECURSIVE StridesFrom(_, _)
StridesFrom(stride, B) ==
  IF stride < B THEN <<stride>> \o StridesFrom(stride * 2, B) ELSE << >>

\* the inner loop without its second barrier (a variant of StrideCode)
StrideCodeOneBarrier == <<"sync", "store_shared", "add_stride">>

\* the statements of one pass of the inner loop
StrideCode == <<"sync", "store_shared", "sync", "add_stride">>

RECURSIVE Repeat(_, _)
Repeat(code, k) == IF k = 0 THEN << >> ELSE code \o Repeat(code, k - 1)

\* the statements of one iteration of the for loop
IterationCode(B) ==
  <<"load">> \o Repeat(StrideCode, Len(StridesFrom(1, B)))
  \o <<"sync", "store_shared", "sync", "shift", "store_Y", "add_offset">>

\* the statements a thread runs: the for loop, then the carry statement
Program(B, W) == Repeat(IterationCode(B), W) \o <<"carry">>

\* scan_kernel_2: load, the same inner loop, the shifted store to carries
Scan2Code(B) ==
  <<"load_carry">> \o Repeat(StrideCode, Len(StridesFrom(1, B)))
  \o <<"sync", "store_shared", "sync", "store_carries">>

\* the values of k in "for (int k = blockDim.x / 2; k > 0; k /= 2)"
RECURSIVE Halvings(_)
Halvings(k) == IF k > 0 THEN <<k>> \o Halvings(k \div 2) ELSE << >>

\* cuda_dot_product: the grid-stride loop, the store of dot, the tree
\* reduction with a barrier in front of every step, the atomicAdd
DotCode(B) ==
  <<"accumulate", "store_shared">>
  \o Repeat(<<"sync", "tree_add">>, Len(Halvings(B \div 2)))
  \o <<"atomic_add">>

\* the for loop of scan_kernel_1 runs while i < N (a variant of LoopLimit)
LoopLimitN(N, G, B, b) == U32FromInt(N)

\* the for loop of scan_kernel_1 runs while i < block_stop
LoopLimit(N, G, B, b) == BlockStop(N, G, B, b)

\* the number of times "i < limit" holds, i growing by blockDim.x, counted
\* up to fuel
RECURSIVE LoopTrips(_, _, _, _)
LoopTrips(i, limit, B, fuel) ==
  IF fuel = 0 \/ ~U32Less(i, limit) THEN 0
  ELSE 1 + LoopTrips(U32AddSmall(i, B), limit, B, fuel - 1)

\* the trip count of the for loop of thread t of block b
TripsIn(N, G, B, b, t) ==
  LoopTrips(U32AddSmall(BlockStart(N, G, B, b), t), LoopLimit(N, G, B, b), B,
            MaxBlockN + 1)

TripsOf(t) == TripsIn(blkN, blkG, blkB, blkIdx, t)

\* the for loop's trip count of thread 0
Trips == TripsOf(0)

\* the statements thread t of block b runs
ProgramIn(kernel, N, G, B, b, t) ==
  IF kernel = "scan_kernel_1" THEN Program(B, TripsIn(N, G, B, b, t))
  ELSE IF kernel = "scan_kernel_2" THEN Scan2Code(B)
  ELSE DotCode(B)

\* the iterations k of thread t's for loop with i < N at "if (i < N) Y[i] = ..."
GuardIn(N, G, B, b, t) ==
  {k \in 0..(TripsIn(N, G, B, b, t) - 1) :
     StoreGuard(LoopIndex(BlockStart(N, G, B, b), B, t, k), N)}

ProgramOf(t) == tprog[t]

BlockProgram == ProgramOf(0)

\* the for loop iteration the statement at index j belongs to
IterationOf(j) == (j - 1) \div Len(IterationCode(blkB))

\* the stride of the inner loop's pass the statement at index j belongs to
StrideOf(j) ==
  StridesFrom(1, blkB)[((((j - 1) % Len(IterationCode(blkB))) - 1)
                        \div Len(StrideCode)) + 1]

\* the k of the reduction step the statement at index j belongs to
HalvingOf(j) == Halvings(blkB \div 2)[((j - 3) \div 2) + 1]

\* the slots of the shared buffer that thread t loads in the statement at j
SharedLoads(t, j) ==
  LET op == ProgramOf(t)[j]
  IN  IF op = "add_stride"
      THEN (IF t >= StrideOf(j) THEN {t - StrideOf(j)} ELSE {})
      ELSE IF op = "shift" \/ op = "store_carries"
      THEN (IF t > 0 THEN {t - 1} ELSE {})
      ELSE IF op = "add_offset" THEN {blkB - 1}
      ELSE IF op = "tree_add"
      THEN (IF t < HalvingOf(j) THEN {t, t + HalvingOf(j)} ELSE {})
      ELSE IF op = "atomic_add" THEN (IF t = 0 THEN {0} ELSE {})
      ELSE {}

\* the slots of the shared buffer that thread t stores in the statement at j
SharedStores(t, j) ==
  LET op == ProgramOf(t)[j]
  IN  IF op = "store_shared" THEN {t}
      ELSE IF op = "tree_add" /\ t < HalvingOf(j) THEN {t}
      ELSE {}

Ended(t) == tpc[t] > Len(ProgramOf(t))

\* no barrier: a thread goes through alone (a variant of Released)
ReleasedAtOnce(waiting, B) == TRUE

\* __syncthreads() lets the threads through once all of the block wait
Released(waiting, B) == waiting = 0..(B - 1)

\* a thread runs its next statement, other than __syncthreads()
ThreadStep(t) ==
  /\ ~Ended(t)
  /\ ProgramOf(t)[tpc[t]] # "sync"
  /\ tpc' = [tpc EXCEPT ![t] = @ + 1]
  /\ yStored' = IF /\ ProgramOf(t)[tpc[t]] = "store_Y"
                   /\ IterationOf(tpc[t]) \in tguard[t]
                THEN yStored \cup {<<t, IterationOf(tpc[t])>>}
                ELSE yStored
  /\ carryStored' = (carryStored \/ (ProgramOf(t)[tpc[t]] = "carry" /\ t = 0))
  /\ phaseReads' = phaseReads \cup {<<t, slot>> : slot \in SharedLoads(t, tpc[t])}
  /\ phaseWrites' = phaseWrites \cup {<<t, slot>> : slot \in SharedStores(t, tpc[t])}
  /\ UNCHANGED <<blkKernel, blkG, blkIdx, blkB, blkN, tprog, tguard, arrived>>

\* a thread reaches __syncthreads(); the last one to arrive releases all
ArriveSync(t) ==
  /\ ~Ended(t)
  /\ ProgramOf(t)[tpc[t]] = "sync"
  /\ t \notin arrived
  /\ IF Released(arrived \cup {t}, blkB)
     THEN /\ arrived' = {}
          /\ tpc' = [u \in DOMAIN tpc |->
                       IF u \in arrived \cup {t} THEN tpc[u] + 1 ELSE tpc[u]]
          /\ phaseReads' = {}
          /\ phaseWrites' = {}
     ELSE /\ arrived' = arrived \cup {t}
          /\ tpc' = tpc
          /\ UNCHANGED <<phaseReads, phaseWrites>>
  /\ UNCHANGED <<blkKernel, blkG, blkIdx, blkB, blkN, tprog, tguard, yStored,
                 carryStored>>

\* a block of scan_kernel_1<<<G, B>>>, of scan_kernel_2<<<1, B>>> or of
\* cuda_dot_product<<<G, B>>> starts; runs whose for loop is longer than
\* MaxBlockN trips are left out
InitBlock ==
  /\ blkKernel \in {"scan_kernel_1", "scan_kernel_2", "cuda_dot_product"}
  /\ blkB \in ThreadBlockSizes
  /\ blkN \in 0..MaxBlockN
  /\ blkG \in 1..MaxDotBlocks
  /\ blkIdx \in 0..(blkG - 1)
  /\ blkKernel # "scan_kernel_1" => (blkG = 1 /\ blkN = blkB)
  /\ \A t \in 0..(blkB - 1) : TripsOf(t) <= MaxBlockN
  /\ tprog = Table([t \in 0..(blkB - 1) |->
                      ProgramIn(blkKernel, blkN, blkG, blkB, blkIdx, t)])
  /\ tguard = Table([t \in 0..(blkB - 1) |->
                       GuardIn(blkN, blkG, blkB, blkIdx, t)])
  /\ tpc = Table([t \in 0..(blkB - 1) |-> 1])
  /\ arrived = {}
  /\ yStored = {}
  /\ carryStored = FALSE
  /\ phaseReads = {} /\ phaseWrites = {}
  /\ ScanIdle /\ AsmIdle /\ CgIdle /\ StreamIdle /\ DotIdle /\ MatvecIdle
  /\ IncIdle

NextBlock ==
  \/ \E t \in DOMAIN tpc :
       ThreadStep(t)
       /\ UNCHANGED <<scanVars, asmVars, cgVars, streamVars, dotVars, mvVars, incVars>>
  \/ \E t \in DOMAIN tpc :
       ArriveSync(t)
       /\ UNCHANGED <<scanVars, asmVars, cgVars, streamVars, dotVars, mvVars, incVars>>

SpecBlock == InitBlock /\ [][NextBlock]_vars

\* every thread that can run is scheduled eventually
FairSpecBlock == SpecBlock /\ WF_vars(NextBlock)

---------------------------------------------------------------------------
(* Properties of the threads of a block of scan_kernel_1 *)

\* the <<thread, iteration>> pairs whose store to Y passes the guard i < N
OutputWrites ==
  {w \in (0..(blkB - 1)) \X (0..(Trips - 1)) :
     StoreGuard(LoopIndex(BlockStart(blkN, blkG, blkB, blkIdx), blkB, w[1], w[2]),
                blkN)}

\* C20 as stated: once carries[block] is stored, every thread of the block
\* has completed all of its stores to Y (a barrier separates the last
\* output store from the carry store).
C20_CarryAfterAllOutputs ==
  (blkKernel = "scan_kernel_1" /\ carryStored) => yStored = OutputWrites

\* C20 as the code has it: no barrier stands between the last store to Y and
\* the carry store.  Once carries[block] is stored, thread 0 has completed
\* its own stores to Y, and every thread has passed the last barrier of the
\* loop, so all stores to Y of the earlier iterations are complete; only the
\* other threads' stores of the last iteration may still be missing.  When
\* all threads of the block have ended, all stores to Y and the carry store
\* are complete.
C20_CarryAfterOwnOutputs ==
  blkKernel = "scan_kernel_1" =>
    /\ carryStored =>
         /\ \A w \in OutputWrites :
              (w[1] = 0 \/ w[2] < Trips - 1) => w \in yStored
         /\ \A t \in DOMAIN tpc : tpc[t] >= Len(BlockProgram) - 3
    /\ (\A t \in DOMAIN tpc : Ended(t)) =>
         (carryStored /\ yStored = OutputWrites)

\* the carry is stored while another thread still has its last store to Y
\* ahead, in a block that ran the loop more than once
C20_Witness ==
  /\ blkKernel = "scan_kernel_1"
  /\ carryStored
  /\ Trips >= 2
  /\ \E w \in OutputWrites : w[1] # 0 /\ w \notin yStored
  /\ \E w \in yStored : w[1] # 0

\* the accesses of the current barrier phase that touch a slot another
\* thread stores in the same phase
PhaseConflicts ==
  {pair \in phaseWrites \X (phaseReads \cup phaseWrites) :
     pair[1][2] = pair[2][2] /\ pair[1][1] # pair[2][1]}

\* C21: in scan_kernel_1 and scan_kernel_2, under every interleaving of the
\* threads of a block, no thread stores shared_buffer[s] in a barrier phase
\* in which another thread loads or stores shared_buffer[s]: every load of a
\* slot stored by another thread is separated from that store by a barrier.
C21_SharedBufferPhases ==
  blkKernel \in {"scan_kernel_1", "scan_kernel_2"} => PhaseConflicts = {}

\* in the second iteration of the for loop a thread has loaded the slot of
\* another thread, which that thread stored the phase before
C21_Witness ==
  /\ blkKernel = "scan_kernel_1"
  /\ \E a \in phaseReads : a[1] # a[2] /\ IterationOf(tpc[a[1]] - 1) >= 1

---------------------------------------------------------------------------
(* Properties of the index guards of scan_kernel_1 and scan_kernel_3 *)

\* the number of indices the blocks' sections hold together
SectionsLen == U32ToNat(BlockStop(scanN, gdim, bdim, gdim - 1))

\* the input extended by zeros to the end of the last section
ZeroPadded ==
  [i \in 0..(SectionsLen - 1) |->
     IF i < scanN THEN X[i] ELSE IF elemType = "int" THEN 0 ELSE DoubleZero]

\* C22: for N >= 1, also when N is not a multiple of
\* num_blocks * threads_per_block, scan_kernel_1 loads no input[i] and
\* scan_kernel_1 and scan_kernel_3 load and store no output[i] with i >= N,
\* and the out-of-range loop iterations add 0 to block_offset: the carries
\* pass 1 stores are those of the input extended by zeros to full sections
\* (compared for the small launch configurations).
C22_OutOfRangeSkipped ==
  (scanN >= 1 /\ spc # "hung") =>
    /\ readsX \subseteq 0..(scanN - 1)
    /\ DOMAIN Y \subseteq 0..(scanN - 1)
    /\ (spc = "k2" /\ <<gdim, bdim>> \in SmallConfigs) =>
         carries = Scan1Kernel(build, elemType, ZeroPadded, SectionsLen,
                               gdim, bdim).carries

\* pass 1 has run with a last block whose section ends behind N, on an input
\* that is not all zero
C22_Witness ==
  /\ spc = "k2"
  /\ scanN >= 1 /\ scanN % (gdim * bdim) # 0
  /\ SectionsLen >= scanN + 2
  /\ readsX = 0..(scanN - 1)
  /\ \E b \in DOMAIN carries : ElemToDouble(elemType, carries[b]) # DoubleZero

---------------------------------------------------------------------------
(* Properties of the buffer sizes of the assembly pipeline *)

\* C23: in the assembly pipeline for an n x n grid every access to the
\* row-count buffer (cuda_nnz) and to the row_offsets buffer stays inside the
\* n * n elements allocated for each: the scan loads no element of its input
\* and stores no element of its output at an index >= n * n.
C23_RowBuffersInBounds ==
  apc \in {"scanning", "solve", "fill", "done"} =>
    /\ readsX \subseteq 0..(RowBufferLen(n) - 1)
    /\ DOMAIN Y \subseteq 0..(RowBufferLen(n) - 1)
    /\ DOMAIN row_offsets \subseteq 0..(RowBufferLen(n) - 1)

\* C24: every position at which assembleA stores into col_indices and values
\* is smaller than nnz_total, the length solve_system allocated for both, for
\* every row of the n x n grid, the last row included.
C24_FillInsideAllocation ==
  apc = "done" =>
    \A row \in DOMAIN emitted :
      \A k \in 1..Len(emitted[row]) : emitted[row][k][1] < nnz_total

\* the positions row r stores at
FillPositions(r) == {emitted[r][k][1] : k \in 1..Len(emitted[r])}

\* C25: in the fill phase row r stores at exactly the positions
\* row_offsets[r] .. row_offsets[r] + count[r] - 1 and its cursor ends at
\* row_offsets[r + 1]; the positions of distinct rows are disjoint, and those
\* of all rows together are [0, row_offsets[N]) without gaps.
C25_FillRangesPartition ==
  apc = "done" =>
    /\ DOMAIN emitted = 0..(n * n - 1)
    /\ \A r \in DOMAIN emitted :
         /\ FillPositions(r) = row_offsets[r]..(row_offsets[r] + cuda_nnz[r] - 1)
         /\ Len(emitted[r]) = cuda_nnz[r]
         /\ row_offsets[r] + Len(emitted[r]) = row_offsets[r + 1]
    /\ \A r1, r2 \in DOMAIN emitted :
         r1 # r2 => FillPositions(r1) \cap FillPositions(r2) = {}
    /\ UNION {FillPositions(r) : r \in DOMAIN emitted}
         = 0..(row_offsets[n * n] - 1)

---------------------------------------------------------------------------
(* Properties of the barriers of scan_kernel_1, scan_kernel_2 and
   cuda_dot_product *)

\* the number of __syncthreads() calls in a sequence of statements
RECURSIVE SyncCalls(_)
SyncCalls(code) ==
  IF code = << >> THEN 0
  ELSE (IF Head(code) = "sync" THEN 1 ELSE 0) + SyncCalls(Tail(code))

AllEnded == \A t \in DOMAIN tpc : Ended(t)

\* C26: in scan_kernel_1, scan_kernel_2 and cuda_dot_product (blockDim.x a
\* power of two, as in every launch) all threads of a block execute the same
\* number of barrier calls, for every N, block index and thread index; no
\* thread waits at a barrier after another thread of its block has ended,
\* and under a fair scheduler every thread of the block ends.
C26_BarriersUniformAndTerminate ==
  /\ [](\A t, u \in DOMAIN tpc : SyncCalls(ProgramOf(t)) = SyncCalls(ProgramOf(u)))
  /\ [](arrived # {} => \A t \in DOMAIN tpc : ~Ended(t))
  /\ <>AllEnded

\* a block of scan_kernel_1 with several threads has ended after more than
\* one iteration of the for loop
C26_Witness ==
  /\ blkKernel = "scan_kernel_1"
  /\ blkB >= 2 /\ Trips >= 2
  /\ AllEnded

---------------------------------------------------------------------------
(* Properties of the host buffers of inclusive_scan *)

\* C27: for every N >= 1 inclusive_scan loads and stores only indices in
\* [0, N) of its N-element host buffers z_ex and z_in and of the input x.
C27_HostBuffersInBounds ==
  (spc = "inclusive" /\ scanN >= 1) =>
    /\ z_exLoads \subseteq 0..(scanN - 1)
    /\ xLoads \subseteq 0..(scanN - 1)
    /\ DOMAIN z_in \subseteq 0..(scanN - 1)

============================================================================
